---- MODULE Spec2Model ----
(***************************************************************************)
(* Model of the deBridge USDC transfer-event pipeline: the Temporal        *)
(* collection workflow (collectEventsWorkflow), its activities, the        *)
(* ClickHouse transfer_events table and the retry helper (withRetry).      *)
(***************************************************************************)
EXTENDS Integers, Sequences, FiniteSets, TLC

(***************************************************************************)
(* Program constants                                                       *)
(***************************************************************************)
\* blocksPerDay * 30n with blocksPerDay = 24*60*60/12 (activities/index.ts:48-49)
LookbackBlocks == 216000
\* continue-as-new threshold on progress.blocksProcessed (collectEvents.ts:109)
ContinueAsNewThreshold == 500000
\* retry.maximumAttempts of the activity proxy (collectEvents.ts:25)
MaximumAttempts == 5

(***************************************************************************)
(* Bounds of the model                                                     *)
(***************************************************************************)
\* number of workflow executions started by a client
MaxRuns == 2
\* number of blocks the chain may grow by while the model runs
MaxNewBlocks == 1
\* largest maxRetries a withRetry call is given
MaxMaxRetries == 3
\* largest number of physical rows in the store-only specification
MaxRows == 3
\* number of values Math.random() takes in the model
RandomDenominator == 4
\* longest list of logs given to a function applied on its own
MaxLogs == 3
\* number of days the rows of the analysis queries span
MaxDay == 8
\* most logs one call of fetchAndStoreEvents finds in its range
MaxBatchLogs == 52

(***************************************************************************)
(* The chain read through the RPC client                                   *)
(***************************************************************************)
\* head of the chain when the model starts
Head0 == 716004

\* config.target.address
TargetAddress == "target"

\* Transfer logs of the USDC contract, by the block that contains them; td is
\* a transfer of the target address to itself, tx does not involve it
ChainLogs ==
  { [transactionHash |-> "ta", logIndex |-> 0, blockNumber |-> 3,
     from |-> "other", to |-> TargetAddress],
    [transactionHash |-> "tb", logIndex |-> 0, blockNumber |-> 500004,
     from |-> TargetAddress, to |-> "other"],
    [transactionHash |-> "td", logIndex |-> 0, blockNumber |-> 716003,
     from |-> TargetAddress, to |-> TargetAddress],
    [transactionHash |-> "tx", logIndex |-> 1, blockNumber |-> 716003,
     from |-> "other", to |-> "another"],
    [transactionHash |-> "te", logIndex |-> 2, blockNumber |-> 716004,
     from |-> "other", to |-> TargetAddress],
    [transactionHash |-> "tf", logIndex |-> 0, blockNumber |-> 716005,
     from |-> TargetAddress, to |-> "other"] }

\* timestamp of the header of block b (12 second block time)
BlockTimestamp(b) == 12 * b

(***************************************************************************)
(* Workflow inputs (CollectEventsInput)                                    *)
(***************************************************************************)
NoStart == [has |-> FALSE, block |-> 0]
Start(b) == [has |-> TRUE, block |-> b]
In(t, bs, s) == [targetEvents |-> t, blockBatchSize |-> bs, startFromBlock |-> s]

\* the default start (no startFromBlock) with a batch size whose last batch
\* ends on the head and one whose last batch ends before it; a scan of the
\* last blocks with a small batch; a scan from an old block that is long
\* enough to continue as new
Inputs ==
  { In(10, 108000, NoStart), In(2, 107999, NoStart),
    In(10, 1, Start(716002)), In(10, 300000, Start(4)) }

\* a scan of the last blocks with blockBatchSize 0
EdgeInputs == { In(10, 0, Start(716002)) }

VARIABLES
  \* ---- chain ----
  head,             \* current block number of the network
  \* ---- ClickHouse ----
  table,            \* physical rows of transfer_events
  \* ---- collectEventsWorkflow ----
  pc,               \* position of the workflow execution
  input,            \* CollectEventsInput of the execution
  stopRequested,
  progress,         \* CollectionProgress
  startBlock,       \* BigInt(startBlockStr)
  currentBlockNum,
  networkBlockNum,
  batch,            \* range passed to fetchAndStoreEvents
  activityAttempt,  \* attempt number of the activity in flight
  eventsFound,      \* result of the activity
  countAtStart,     \* the event count the execution started from
  \* ---- history ----
  runs,             \* executions started by a client
  segment,          \* continue-as-new count of the current scan
  stopAt,           \* "none", or whether the first stop signal of the scan found a
                    \* batch in flight ("activity") or not ("boundary")
  issued,           \* ranges issued by the current execution
  rangeLow,         \* first block of the contiguous range the store covers
  tainted,          \* a client-supplied startFromBlock broke contiguity
  restarted,        \* the execution follows one that was interrupted or failed
  \* ---- withRetry ----
  retryPc,          \* position of one withRetry call
  opts,             \* RetryOptions of the call
  attempt,          \* loop variable of withRetry
  lastError,
  thrown,           \* the error withRetry threw
  calls,            \* invocations of fn
  sleeps,           \* sleeps started
  errors,           \* the errors fn threw, in order
  returned,         \* the value withRetry returned
  delay,            \* the delay of the last sleep
  rpc,              \* the RPC method of the call, when the call is an RPC
  \* ---- functions applied on their own ----
  fn,               \* name of the function applied
  arg,              \* its argument
  out,              \* its result
  \* ---- one call of fetchAndStoreEvents, step by step ----
  actPc,            \* position of the activity
  actLogs,          \* `logs` of the activity
  timestamps,       \* the Map from block number to timestamp
  loopIndex,        \* `i` of processEventsBatch
  outstanding,      \* receipt fetches issued and not settled
  receiptFailed,    \* a receipt fetch of the call was rejected
  enriched,         \* `events` of processEventsBatch
  returnValue,      \* what the activity returned
  \* ---- history of a scan of the workflow over its executions ----
  scanIssued,       \* ranges issued since the client started the workflow
  scanStart,        \* the block the first execution of the scan started from
  \* ---- commands/pipeline.ts (runPipeline) ----
  plPc,             \* position of the pipeline process
  plConfig,         \* config.target.minEvents and config.collection.blockBatchSize
  currentBlock,     \* chain head read in step 2
  plStartBlock,     \* `startBlock` of runPipeline
  totalEvents,
  plCurrentBlockNum,\* `currentBlockNum` of runPipeline
  blocksProcessed,  \* the counter debridge_blocks_processed_total
  plIssued,         \* ranges passed to fetchTransferEvents by the process
  plTable,          \* physical rows of transfer_events in the store of the
                    \* pipeline
  plRuns            \* pipeline processes started

chainVars == <<head>>
storeVars == <<table>>
wfVars == <<pc, input, stopRequested, progress, startBlock, currentBlockNum,
            networkBlockNum, batch, activityAttempt, eventsFound, countAtStart>>
histVars == <<runs, segment, stopAt, issued, rangeLow, tainted, restarted>>
retryVars == <<retryPc, opts, attempt, lastError, thrown, calls, sleeps, errors,
               returned, delay, rpc>>
fnVars == <<fn, arg, out>>
actVars == <<actPc, actLogs, timestamps, loopIndex, outstanding, receiptFailed,
             enriched, returnValue>>
scanVars == <<scanIssued, scanStart>>
plVars == <<plPc, plConfig, currentBlock, plStartBlock, totalEvents,
            plCurrentBlockNum, blocksProcessed, plIssued, plTable, plRuns>>
vars == <<chainVars, storeVars, wfVars, histVars, retryVars, fnVars, actVars,
          scanVars, plVars>>

(***************************************************************************)
(* Sequences helpers                                                       *)
(***************************************************************************)
Min(a, b) == IF a < b THEN a ELSE b

(***************************************************************************)
(* blockchain/events.ts                                                    *)
(***************************************************************************)
\* order in which the node returns logs: by block, then by log index
LogBefore(a, b) ==
  \/ a.blockNumber < b.blockNumber
  \/ a.blockNumber = b.blockNumber /\ a.logIndex < b.logIndex

RECURSIVE SortLogs(_)
SortLogs(S) ==
  IF S = {} THEN <<>>
  ELSE LET first == CHOOSE a \in S : \A b \in S \ {a} : LogBefore(a, b)
       IN  <<first>> \o SortLogs(S \ {first})

\* client.getLogs with args {from: target} or {to: target}: the matching logs
\* of [fromBlock, toBlock] the node knows, in chain order
getLogs(field, fromBlock, toBlock, h) ==
  SortLogs({ l \in ChainLogs : /\ l[field] = TargetAddress
                               /\ fromBlock <= l.blockNumber
                               /\ l.blockNumber <= toBlock
                               /\ l.blockNumber <= h })

\* line 83: the key of logsMap
LogKey(log) == <<log.transactionHash, log.logIndex>>

\* logsMap.set(key, log) on the entries of a Map, kept in insertion order: a
\* known key keeps its place and takes the new value
MapSet(entries, log) ==
  IF \E i \in 1..Len(entries) : LogKey(entries[i]) = LogKey(log)
  THEN [i \in 1..Len(entries) |->
          IF LogKey(entries[i]) = LogKey(log) THEN log ELSE entries[i]]
  ELSE Append(entries, log)

RECURSIVE MapSetAll(_, _, _)
MapSetAll(entries, logs, i) ==
  IF i > Len(logs) THEN entries
  ELSE MapSetAll(MapSet(entries, logs[i]), logs, i + 1)

\* the two results put together without the Map
CombineAndDeduplicate_Concat(logsFrom, logsTo) == logsFrom \o logsTo

\* lines 80-87: Array.from(logsMap.values()) over [...logsFrom, ...logsTo]
CombineAndDeduplicate(logsFrom, logsTo) ==
  MapSetAll(<<>>, logsFrom \o logsTo, 1)

\* fetchTransferEvents (lines 38-95): the two queries and their merge
fetchTransferEvents(fromBlock, toBlock, h) ==
  CombineAndDeduplicate(getLogs("from", fromBlock, toBlock, h),
                        getLogs("to", fromBlock, toBlock, h))

\* blockNumber of a log that carries none (null or undefined)
Null == -1

\* `if (log.blockNumber)`: null, undefined and 0n are falsy
Truthy(blockNumber) == blockNumber # Null /\ blockNumber # 0

\* the values of `blocks`, a Set, in insertion order
RECURSIVE SetValues(_, _, _)
SetValues(values, logs, i) ==
  IF i > Len(logs) THEN values
  ELSE LET b == logs[i].blockNumber
       IN  IF Truthy(b) /\ ~(\E j \in 1..Len(values) : values[j] = b)
           THEN SetValues(Append(values, b), logs, i + 1)
           ELSE SetValues(values, logs, i + 1)

\* sort((a, b) => Number(a - b)): ascending
RECURSIVE SortAscending(_)
SortAscending(S) ==
  IF S = {} THEN <<>>
  ELSE LET least == CHOOSE a \in S : \A b \in S : a <= b
       IN  <<least>> \o SortAscending(S \ {least})

\* getUniqueBlockNumbers without the sort
getUniqueBlockNumbers_Unsorted(logs) == SetValues(<<>>, logs, 1)

\* getUniqueBlockNumbers (lines 182-190)
getUniqueBlockNumbers(logs) ==
  LET blocks == SetValues(<<>>, logs, 1)
  IN  SortAscending({ blocks[i] : i \in 1..Len(blocks) })

\* processEventsBatch: blockTimestamps.get(log.blockNumber) || 0, where the
\* timestamps are those of the blocks of getUniqueBlockNumbers
processEventsBatch(logs) ==
  LET blockNumbers == getUniqueBlockNumbers(logs)
  IN  [i \in 1..Len(logs) |->
        [transactionHash |-> logs[i].transactionHash,
         logIndex        |-> logs[i].logIndex,
         blockNumber     |-> logs[i].blockNumber,
         blockTimestamp  |->
            IF \E j \in 1..Len(blockNumbers) : blockNumbers[j] = logs[i].blockNumber
            THEN BlockTimestamp(logs[i].blockNumber)
            ELSE 0]]

(***************************************************************************)
(* database/schema.ts and database/queries.ts                              *)
(***************************************************************************)
\* one JSONEachRow row of insertTransferEvents
Row(event) ==
  [transaction_hash |-> event.transactionHash,
   log_index        |-> event.logIndex,
   block_number     |-> event.blockNumber,
   block_timestamp  |-> event.blockTimestamp]

\* ORDER BY (block_timestamp, transaction_hash, log_index): the key on which
\* ReplacingMergeTree replaces rows
SortingKey(r) == <<r.block_timestamp, r.transaction_hash, r.log_index>>

\* The table holds every inserted row until a merge replaces it.  No query of
\* the program observes the physical order of rows of different sorting keys,
\* so the table is kept as a set of entries [row, ver]: ver is the rank of the
\* row, in insertion order, among the rows of its sorting key.
SameKey(tbl, r) == { e \in tbl : SortingKey(e.row) = SortingKey(r) }

AddRow(tbl, r) == tbl \cup { [row |-> r, ver |-> Cardinality(SameKey(tbl, r)) + 1] }

RECURSIVE AddRows(_, _, _)
AddRows(tbl, rows, i) ==
  IF i > Len(rows) THEN tbl ELSE AddRows(AddRow(tbl, rows[i]), rows, i + 1)

\* insertTransferEvents: an empty batch writes nothing, otherwise one insert
insertTransferEvents(tbl, events) ==
  IF Len(events) = 0 THEN tbl
  ELSE AddRows(tbl, [i \in 1..Len(events) |-> Row(events[i])], 1)

\* a merge drops entry e, which a later row of the same sorting key replaces
Replaced(tbl, e) ==
  \E n \in tbl : n.ver > e.ver /\ SortingKey(n.row) = SortingKey(e.row)
DropEntry(tbl, e) ==
  { IF x.ver > e.ver /\ SortingKey(x.row) = SortingKey(e.row)
    THEN [x EXCEPT !.ver = @ - 1] ELSE x
      : x \in tbl \ {e} }

\* the rows a fully merged table keeps (SELECT ... FINAL): the last inserted
\* row of every sorting key
MergedRows(tbl) == { e.row : e \in { x \in tbl : ~Replaced(tbl, x) } }

\* getEventCount: SELECT count() FROM transfer_events counts physical rows
getEventCount(tbl) == Cardinality(tbl)

\* SELECT max(block_number): 0 on an empty table
MaxBlockNumber(tbl) ==
  IF tbl = {} THEN 0
  ELSE LET top == CHOOSE e \in tbl :
                    \A x \in tbl : x.row.block_number <= e.row.block_number
       IN  top.row.block_number

\* getLastProcessedBlock: null when the table is empty or the maximum is 0
NullBlock == [isNull |-> TRUE, block |-> 0]
getLastProcessedBlock(tbl) ==
  IF MaxBlockNumber(tbl) = 0 THEN NullBlock
  ELSE [isNull |-> FALSE, block |-> MaxBlockNumber(tbl)]

\* the analysis queries read event_date and effective_gas_price of the rows:
\* `events` gives, for every day of 1..MaxDay, the prices of the rows of that
\* day (event_date counted in days)
RECURSIVE SumSeq(_, _)
SumSeq(q, i) == IF i > Len(q) THEN 0 ELSE q[i] + SumSeq(q, i + 1)

\* WITH daily_avg AS (SELECT event_date, avg(effective_gas_price) ... GROUP BY
\* event_date ORDER BY event_date): one row per day that has rows.  The prices
\* of the model are even and a day has at most two rows, so avg is exact.
daily_avg(events) ==
  LET dates == SortAscending({ d \in DOMAIN events : Len(events[d]) > 0 })
  IN  [i \in 1..Len(dates) |->
        [event_date |-> dates[i],
         avg_gas_price |-> SumSeq(events[dates[i]], 1) \div Len(events[dates[i]])]]

\* ROWS BETWEEN 6 PRECEDING AND CURRENT ROW, over rows ordered by event_date
Frame(i) == { j \in (i - 6)..i : j >= 1 }

subtractDays(date, n) == date - n

\* the condition of avgIf: event_date and da.event_date both name the column
\* of daily_avg, read on the row that is aggregated
AvgIfCondition(row) == row.event_date >= subtractDays(row.event_date, 6)

RECURSIVE SumAvg(_, _)
SumAvg(da, J) ==
  IF J = {} THEN 0
  ELSE LET j == CHOOSE x \in J : TRUE
       IN  da[j].avg_gas_price + SumAvg(da, J \ {j})

\* getMA7EffectiveGasPrice (lines 149-180): ma7 of a date is sum / n, kept as
\* the two numbers
getMA7EffectiveGasPrice(events) ==
  LET da == daily_avg(events)
  IN  [i \in 1..Len(da) |->
        LET rows == { j \in Frame(i) : AvgIfCondition(da[j]) }
        IN  [date |-> da[i].event_date,
             sum |-> SumAvg(da, rows),
             n |-> Cardinality(rows)]]

\* seconds of a day: toDate(block_timestamp) is the day the timestamp falls in
SecondsPerDay == 86400

\* a date taken in a time zone one hour east of UTC
toDate_OneHourEast(block_timestamp) ==
  (block_timestamp + 3600) \div SecondsPerDay

\* event_date Date DEFAULT toDate(block_timestamp), counted in days.
\* insertTransferEvents writes block_timestamp as the UTC wall-clock string
\* of the block time, so the date is the UTC date.
toDate(block_timestamp) == block_timestamp \div SecondsPerDay

\* The analysis queries read the physical rows of transfer_events (no FINAL).
\* A physical row is [block_timestamp, effective_gas_price, gas_cost, ver];
\* two rows that differ in ver only are an event stored twice and not merged.
EventDates(physical) == { toDate(r.block_timestamp) : r \in physical }

RowsOfDate(physical, d) == { r \in physical : toDate(r.block_timestamp) = d }

RECURSIVE SumGasCost(_)
SumGasCost(physical) ==
  IF physical = {} THEN 0
  ELSE LET r == CHOOSE x \in physical : TRUE
       IN  r.gas_cost + SumGasCost(physical \ {r})

RECURSIVE PricesOf(_)
PricesOf(physical) ==
  IF physical = {} THEN <<>>
  ELSE LET r == CHOOSE x \in physical : TRUE
       IN  <<r.effective_gas_price>> \o PricesOf(physical \ {r})

\* SELECT event_date, sum(gas_cost) ... GROUP BY event_date ORDER BY
\* event_date: one row per date that has rows, ascending
DailyCosts(physical) ==
  LET dates == SortAscending(EventDates(physical))
  IN  [i \in 1..Len(dates) |->
        [event_date |-> dates[i],
         daily_cost |-> SumGasCost(RowsOfDate(physical, dates[i]))]]

\* getDailyGasCost (lines 122-143).  gas_cost_eth is gas_cost_wei / 1e18 as
\* a Float64; the model keeps the wei.
getDailyGasCost(physical) ==
  LET dc == DailyCosts(physical)
  IN  [i \in 1..Len(dc) |->
        [date |-> dc[i].event_date, gas_cost_wei |-> dc[i].daily_cost]]

RECURSIVE SumDailyCost(_, _)
SumDailyCost(dc, i) ==
  IF i = 0 THEN 0 ELSE dc[i].daily_cost + SumDailyCost(dc, i - 1)

\* a cumulative series without the window: the cost of the day alone
getCumulativeGasCost_NoWindow(physical) ==
  LET dc == DailyCosts(physical)
  IN  [i \in 1..Len(dc) |->
        [date |-> dc[i].event_date, cum_wei |-> dc[i].daily_cost]]

\* getCumulativeGasCost (lines 185-211): sum(daily_cost) OVER (ORDER BY
\* event_date) sums the rows of daily_costs up to the current one.  cum_eth
\* is cum_wei / 1e18 as a Float64; the model keeps the wei.
getCumulativeGasCost(physical) ==
  LET dc == DailyCosts(physical)
  IN  [i \in 1..Len(dc) |->
        [date |-> dc[i].event_date, cum_wei |-> SumDailyCost(dc, i)]]

\* getMA7EffectiveGasPrice on physical rows
MA7OfRows(physical) ==
  getMA7EffectiveGasPrice([d \in EventDates(physical) |->
                             PricesOf(RowsOfDate(physical, d))])

\* generateAnalysisReport (analysis/metrics.ts:42-90): the three series
generateAnalysisReport(physical) ==
  [daily_gas_cost |-> getDailyGasCost(physical),
   ma7_effective_gas_price |-> MA7OfRows(physical),
   cumulative_gas_cost_eth |-> getCumulativeGasCost(physical)]

(***************************************************************************)
(* config/index.ts                                                         *)
(***************************************************************************)
\* process.env after dotenv.config(): a variable is undefined or holds a text
\* of one of these kinds
EnvKeys == {"ETH_RPC_URL", "TARGET_ADDRESS", "USDC_CONTRACT"}
EnvValues == {"undefined", "empty", "url", "lowercase", "checksummed", "badChecksum"}

\* isAddress of viem (strict): 0x and 40 hex digits, all in lower case or
\* carrying the EIP-55 checksum
isAddress(value) == value \in {"lowercase", "checksummed"}

Value(key, value) == [threw |-> FALSE, key |-> key, value |-> value, message |-> "none"]
Throw(key, message) == [threw |-> TRUE, key |-> key, value |-> "none", message |-> message]

\* requireEnv (lines 6-12): `!value` holds for undefined and for ''
requireEnv(env, key) ==
  IF env[key] \in {"undefined", "empty"}
  THEN Throw(key, "Missing required environment variable")
  ELSE Value(key, env[key])

\* requireAddress that accepts any text
requireAddress_NoCheck(env, key) == requireEnv(env, key)

\* requireAddress (lines 14-20)
requireAddress(env, key) ==
  LET value == requireEnv(env, key)
  IN  IF value.threw THEN value
      ELSE IF ~isAddress(value.value)
      THEN Throw(key, "Invalid Ethereum address")
      ELSE value

\* the evaluation of `export const config` (lines 31-72): rpc.url, then
\* target.address, then target.usdcContract; the first throw ends it
config(env) ==
  LET url == requireEnv(env, "ETH_RPC_URL")
      address == requireAddress(env, "TARGET_ADDRESS")
      usdcContract == requireAddress(env, "USDC_CONTRACT")
  IN  IF url.threw THEN url
      ELSE IF address.threw THEN address
      ELSE IF usdcContract.threw THEN usdcContract
      ELSE Value("config", "loaded")

\* a JavaScript value that is a number, or undefined
Num(n) == [kind |-> "number", n |-> n]
UndefinedValue == [kind |-> "undefined", n |-> 0]

\* the text of an environment variable: unset, '', or decimal digits
Unset == [set |-> FALSE, digits |-> <<>>]
Text(digits) == [set |-> TRUE, digits |-> digits]

\* parseInt(value, 10) of decimal digits
RECURSIVE parseInt(_)
parseInt(digits) ==
  IF digits = <<>> THEN 0
  ELSE 10 * parseInt(SubSeq(digits, 1, Len(digits) - 1)) + digits[Len(digits)]

\* optionalInt (lines 26-29): `value ? ...` is false for undefined and ''
optionalInt(value, defaultValue) ==
  IF value.set /\ value.digits # <<>> THEN Num(parseInt(value.digits))
  ELSE Num(defaultValue)

\* the sections target and collection of `config` that hold numbers (lines
\* 38-42 and 60-66); env gives MIN_EVENTS and BLOCK_BATCH_SIZE
ConfigTarget(env) ==
  [minEvents |-> optionalInt(env.MIN_EVENTS, 5000)]

ConfigCollection(env) ==
  [blockBatchSize |-> optionalInt(env.BLOCK_BATCH_SIZE, 2000),
   maxRetries |-> Num(5),
   initialRetryDelayMs |-> Num(1000),
   maxRetryDelayMs |-> Num(30000)]

\* obj.key in JavaScript: undefined when the object has no such property
GetProperty(obj, key) == IF key \in DOMAIN obj THEN obj[key] ELSE UndefinedValue

\* a < b on numbers; a comparison with undefined is false
LessThan(a, b) ==
  /\ a.kind = "number"
  /\ b.kind = "number"
  /\ a.n < b.n

\* commands/start-workflow.ts:24-31: the argument of collectEventsWorkflow
StartWorkflowArgs(env) ==
  [targetEvents |-> GetProperty(ConfigCollection(env), "minEvents"),
   blockBatchSize |-> GetProperty(ConfigCollection(env), "blockBatchSize")]

(***************************************************************************)
(* temporal/activities/index.ts                                            *)
(***************************************************************************)
\* getStartingBlock resuming at the last processed block itself
getStartingBlock_NoIncrement(tbl, h) ==
  LET lastBlock == getLastProcessedBlock(tbl)
  IN  IF ~lastBlock.isNull /\ lastBlock.block # 0
      THEN lastBlock.block
      ELSE h - LookbackBlocks

\* getStartingBlock: `if (lastBlock)` is false for null (and for 0n)
getStartingBlock(tbl, h) ==
  LET lastBlock == getLastProcessedBlock(tbl)
  IN  IF ~lastBlock.isNull /\ lastBlock.block # 0
      THEN lastBlock.block + 1
      ELSE h - LookbackBlocks

\* BigInt(365 * 24 * 60 * 60 / 12) (commands/pipeline.ts:52)
BlocksPerYear == 2628000

\* step 2 of runPipeline (commands/pipeline.ts:45-55): resume after the last stored block, or start two
\* years of blocks back; `if (lastProcessed)` is false for null and for 0n
PipelineStartBlock(tbl, h) ==
  LET lastProcessed == getLastProcessedBlock(tbl)
  IN  IF ~lastProcessed.isNull /\ lastProcessed.block # 0
      THEN lastProcessed.block + 1
      ELSE h - (BlocksPerYear * 2)

\* the events fetchAndStoreEvents stores for a range
fetchAndStoreEvents(fromBlock, toBlock, h) ==
  processEventsBatch(fetchTransferEvents(fromBlock, toBlock, h))

(***************************************************************************)
(* utils/retry.ts                                                          *)
(***************************************************************************)
\* An error is known by the marker texts its message and its JSON form
\* (JSON.stringify(error)) contain, both lower-cased.
Err(name, message, json) == [name |-> name, message |-> message, json |-> json]
Undefined == Err("undefined", {}, {})
Errors ==
  { Err("rate limit exceeded", {"rate limit"}, {}),
    Err("HTTP 503", {"503"}, {}),
    Err("invalid argument", {}, {}),
    Err("query returned more than 10000 results", {"10000 results"}, {"-32005"}),
    Err("block range too large, limit 500", {"block range", "500"}, {"-32600"}) }

\* isRetryableError (lines 27-60)
isRetryableError(error) ==
  IF error.message \cap {"rate limit", "429"} # {} THEN TRUE
  ELSE IF error.message \cap {"econnreset", "etimedout", "enotfound", "network"} # {}
  THEN TRUE
  ELSE IF error.message \cap {"500", "502", "503", "504"} # {} THEN TRUE
  ELSE IF error.json \cap {"10000 results", "-32005"} # {} THEN FALSE
  ELSE IF error.json \cap {"block range", "-32600"} # {} THEN FALSE
  ELSE FALSE

\* RetryOptions: DEFAULT_OPTIONS (lines 13-17, also the defaults of
\* config.collection), the policy of getBlock (client.ts:53-57) and a policy
\* whose cap is reached on the second retry
DelayPolicies ==
  { [initialDelayMs |-> 1000, maxDelayMs |-> 30000],
    [initialDelayMs |-> 1000, maxDelayMs |-> 5000],
    [initialDelayMs |-> 1000, maxDelayMs |-> 2000] }

Options(maxRetries, policy) ==
  [maxRetries |-> maxRetries, initialDelayMs |-> policy.initialDelayMs,
   maxDelayMs |-> policy.maxDelayMs]

NoOptions == Options(0, [initialDelayMs |-> 0, maxDelayMs |-> 0])

\* Math.random() is n / RandomDenominator for a numerator n of Randoms: a
\* value of [0, 1)
Randoms == 0..(RandomDenominator - 1)

\* a delay without the cap of maxDelayMs
calculateDelay_Uncapped(a, options, random) ==
  LET exponentialDelay == options.initialDelayMs * 2^a
  IN  (random * exponentialDelay) \div RandomDenominator

\* calculateDelay (lines 19-24): full jitter under the capped exponential
calculateDelay(a, options, random) ==
  LET exponentialDelay == options.initialDelayMs * 2^a
      cappedDelay == Min(exponentialDelay, options.maxDelayMs)
  IN  (random * cappedDelay) \div RandomDenominator

\* line 76: the condition of the for loop
LoopContinues(a, maxRetries) == a <= maxRetries

\* a loop that skips an attempt number
NextAttempt_Skips(a) == a + 2

\* line 76: attempt++
NextAttempt(a) == a + 1

\* the exhaustion test one attempt off
MaxRetriesExceeded_OffByOne(a, maxRetries) == a + 1 = maxRetries

\* line 89: no attempt is left after a failure
MaxRetriesExceeded(a, maxRetries) == a = maxRetries

\* a retry decision that ignores the classification of the error
RetriesAfter_IgnoresClass(a, maxRetries, error) ==
  ~MaxRetriesExceeded(a, maxRetries)

\* lines 89-98 say whether withRetry retries after a failure
RetriesAfter(a, maxRetries, error) ==
  ~MaxRetriesExceeded(a, maxRetries) /\ isRetryableError(error)

\* the RPC a call stands for: its method and the maxRetries the configuration
\* asks for (config.collection.maxRetries)
Rpc(method, maxRetries) == [method |-> method, maxRetries |-> maxRetries]
NoRpc == Rpc("none", 0)

\* no function has been applied
FnIdle ==
  /\ fn = "none"
  /\ arg = <<>>
  /\ out = <<>>

ActivityIdle ==
  /\ actPc = "idle"
  /\ actLogs = <<>>
  /\ timestamps = <<>>
  /\ loopIndex = 0
  /\ outstanding = 0
  /\ receiptFailed = FALSE
  /\ enriched = <<>>
  /\ returnValue = Null

RetryIdle ==
  /\ retryPc = "idle"
  /\ opts = NoOptions
  /\ attempt = 0
  /\ lastError = Undefined
  /\ thrown = Undefined
  /\ calls = 0
  /\ sleeps = 0
  /\ errors = <<>>
  /\ returned = 0
  /\ delay = 0
  /\ rpc = NoRpc

\* lines 71-76: withRetry starts with the given options
StartRetry(options) ==
  /\ retryPc = "idle"
  /\ opts' = options
  /\ attempt' = 0
  /\ retryPc' = IF LoopContinues(0, options.maxRetries) THEN "fn" ELSE "thrown"
  /\ UNCHANGED <<lastError, thrown, calls, sleeps, errors, returned, delay>>
  /\ UNCHANGED <<chainVars, storeVars, wfVars, histVars, fnVars, actVars, scanVars, plVars>>

\* withRetry is called with any options
WithRetry ==
  /\ \E maxRetries \in 0..MaxMaxRetries : \E policy \in DelayPolicies :
        StartRetry(Options(maxRetries, policy))
  /\ UNCHANGED rpc

\* lines 78-85: fn resolves and its result is returned; fn resolves with the
\* number of the invocation, so that the results of two invocations differ
FnResolves ==
  /\ retryPc = "fn"
  /\ calls' = calls + 1
  /\ returned' = calls + 1
  /\ retryPc' = "returned"
  /\ UNCHANGED <<opts, attempt, lastError, thrown, sleeps, errors, delay, rpc>>
  /\ UNCHANGED <<chainVars, storeVars, wfVars, histVars, fnVars, actVars, scanVars, plVars>>

\* lines 86-112: fn rejects; the error is thrown or a sleep of
\* calculateDelay(attempt, opts) starts
FnRejects ==
  /\ retryPc = "fn"
  /\ \E error \in Errors :
        /\ calls' = calls + 1
        /\ errors' = Append(errors, error)
        /\ lastError' = error
        /\ IF RetriesAfter(attempt, opts.maxRetries, error)
           THEN /\ retryPc' = "sleep"
                /\ sleeps' = sleeps + 1
                /\ \E random \in Randoms :
                      delay' = calculateDelay(attempt, opts, random)
                /\ thrown' = thrown
           ELSE /\ retryPc' = "thrown"
                /\ thrown' = error
                /\ sleeps' = sleeps
                /\ delay' = delay
  /\ UNCHANGED <<opts, attempt, returned, rpc>>
  /\ UNCHANGED <<chainVars, storeVars, wfVars, histVars, fnVars, actVars, scanVars, plVars>>

\* lines 112 and 76: the sleep ends and the loop goes on, or line 116 throws
SleepEnds ==
  /\ retryPc = "sleep"
  /\ attempt' = NextAttempt(attempt)
  /\ IF LoopContinues(attempt', opts.maxRetries)
     THEN retryPc' = "fn" /\ thrown' = thrown
     ELSE retryPc' = "thrown" /\ thrown' = lastError
  /\ UNCHANGED <<opts, lastError, calls, sleeps, errors, returned, delay, rpc>>
  /\ UNCHANGED <<chainVars, storeVars, wfVars, histVars, fnVars, actVars, scanVars, plVars>>

(***************************************************************************)
(* temporal/workflows/collectEvents.ts                                     *)
(***************************************************************************)
Running == {"getStartingBlock", "getCurrentBlock", "getCollectedEventCount",
            "loop", "activity", "activityDone", "sleep"}

NoInput == [targetEvents |-> 0, blockBatchSize |-> 0, startFromBlock |-> NoStart]
NoBatch == [fromBlock |-> 0, toBlock |-> 0]

\* the progress record a new execution starts with (lines 56-62)
InitialProgress(targetEvents) ==
  [eventsCollected |-> 0, blocksProcessed |-> 0, currentBlock |-> 0,
   targetEvents |-> targetEvents, isComplete |-> FALSE]

\* a loop condition that does not look at the target
LoopCondition_IgnoresTarget ==
  /\ currentBlockNum < networkBlockNum
  /\ ~stopRequested

\* a loop that goes on while the cursor is at or below the head
LoopCondition_UpToHead ==
  /\ progress.eventsCollected < input.targetEvents
  /\ currentBlockNum <= networkBlockNum
  /\ ~stopRequested

\* the while condition of the main collection loop (lines 87-91)
LoopCondition ==
  /\ progress.eventsCollected < input.targetEvents
  /\ currentBlockNum < networkBlockNum
  /\ ~stopRequested

\* a batch end computed backwards from the cursor
EndBlockNum_Backwards(cur, batchSize, net) ==
  LET batchEndNum == cur - batchSize
  IN  IF batchEndNum > net THEN net ELSE batchEndNum

\* a batch end that is not clipped to the chain head
EndBlockNum_NotClipped(cur, batchSize, net) == cur + batchSize

\* batch end block (lines 93-94)
EndBlockNum(cur, batchSize, net) ==
  LET batchEndNum == cur + batchSize
  IN  IF batchEndNum > net THEN net ELSE batchEndNum

\* isComplete that ignores the chain head
IsComplete_TargetOnly(eventsCollected, targetEvents, cur, net) ==
  eventsCollected >= targetEvents

\* the value of progress.isComplete on return (line 120)
IsComplete(eventsCollected, targetEvents, cur, net) ==
  eventsCollected >= targetEvents \/ cur >= net

\* a progress update that only runs when the batch found events
UpdatedProgress_SkipsEmpty(p, found, cur, endBlockNum) ==
  IF found = 0 THEN p
  ELSE [p EXCEPT !.eventsCollected = @ + found,
                 !.blocksProcessed = @ + (endBlockNum - cur + 1),
                 !.currentBlock = endBlockNum]

\* a progress update that loses the events of the batch
UpdatedProgress_DropsEvents(p, found, cur, endBlockNum) ==
  [p EXCEPT !.blocksProcessed = @ + (endBlockNum - cur + 1),
            !.currentBlock = endBlockNum]

\* progress after a batch (lines 103-105)
UpdatedProgress(p, found, cur, endBlockNum) ==
  [p EXCEPT !.eventsCollected = @ + found,
            !.blocksProcessed = @ + (endBlockNum - cur + 1),
            !.currentBlock = endBlockNum]

\* a start that does not look at startFromBlock
StartBlockOf_IgnoresInput(in, tbl, h) == getStartingBlock(tbl, h)

\* the next block a scan resumes from (getStartingBlock unless the input
\* carries startFromBlock, line 75)
StartBlockOf(in, tbl, h) ==
  IF in.startFromBlock.has THEN in.startFromBlock.block
  ELSE getStartingBlock(tbl, h)

\* the locals of an execution as lines 53-62 initialise them
FreshLocals(in) ==
  /\ input' = in
  /\ stopRequested' = FALSE
  /\ progress' = InitialProgress(in.targetEvents)
  /\ startBlock' = 0
  /\ currentBlockNum' = 0
  /\ networkBlockNum' = 0
  /\ batch' = NoBatch
  /\ activityAttempt' = 0
  /\ eventsFound' = 0
  /\ countAtStart' = 0
  /\ issued' = <<>>

\* a workflow execution begins: lines 53-69, then initializeDatabase
WorkflowBegin(in) ==
  /\ pc' = "getStartingBlock"
  /\ FreshLocals(in)

\* an execution that ended without returning keeps no state
ExecutionLost(endPc) ==
  /\ pc' = endPc
  /\ FreshLocals(NoInput)

\* no scan has started
ScanIdle ==
  /\ scanIssued = <<>>
  /\ scanStart = 0

\* no pipeline process has started
NoConfig == [minEvents |-> 0, blockBatchSize |-> 0]
PipelineIdle ==
  /\ plPc = "idle"
  /\ plConfig = NoConfig
  /\ currentBlock = 0
  /\ plStartBlock = 0
  /\ totalEvents = 0
  /\ plCurrentBlockNum = 0
  /\ blocksProcessed = 0
  /\ plIssued = <<>>
  /\ plTable = {}
  /\ plRuns = 0

Init ==
  /\ head = Head0
  /\ table = {}
  /\ pc = "idle"
  /\ input = NoInput
  /\ stopRequested = FALSE
  /\ progress = InitialProgress(0)
  /\ startBlock = 0
  /\ currentBlockNum = 0
  /\ networkBlockNum = 0
  /\ batch = NoBatch
  /\ activityAttempt = 0
  /\ eventsFound = 0
  /\ countAtStart = 0
  /\ runs = 0
  /\ segment = 0
  /\ stopAt = "none"
  /\ issued = <<>>
  /\ rangeLow = 0
  /\ tainted = FALSE
  /\ restarted = FALSE
  /\ RetryIdle
  /\ FnIdle
  /\ ActivityIdle
  /\ ScanIdle
  /\ PipelineIdle

\* a client starts collectEventsWorkflow (temporal/client.ts startCollectionWorkflow)
StartWorkflowWith(ins) ==
  /\ pc \in {"idle", "done", "failed", "interrupted"}
  /\ runs < MaxRuns
  /\ \E in \in ins : WorkflowBegin(in)
  /\ runs' = runs + 1
  /\ segment' = 0
  /\ stopAt' = "none"
  /\ restarted' = (pc \in {"failed", "interrupted"})
  /\ UNCHANGED <<head, table, rangeLow, tainted>>
  /\ scanIssued' = <<>>
  /\ scanStart' = 0
  /\ UNCHANGED <<retryVars, fnVars, actVars, plVars>>

StartWorkflow == StartWorkflowWith(Inputs)

\* a start with a batch size of 0
StartWorkflowEdge == StartWorkflowWith(EdgeInputs)

\* line 75: input.startFromBlock || await getStartingBlock()
GetStartingBlock ==
  /\ pc = "getStartingBlock"
  /\ startBlock' = StartBlockOf(input, table, head)
  /\ pc' = "getCurrentBlock"
  /\ IF segment > 0 THEN UNCHANGED <<rangeLow, tainted>>
     ELSE IF table = {}
          THEN rangeLow' = startBlock' /\ tainted' = FALSE
          ELSE rangeLow' = rangeLow /\ tainted' = (tainted \/ input.startFromBlock.has)
  /\ UNCHANGED <<head, table, input, stopRequested, progress, currentBlockNum,
                 networkBlockNum, batch, activityAttempt, eventsFound, countAtStart, runs, segment,
                 stopAt, issued, restarted>>
  /\ scanStart' = IF segment = 0 THEN startBlock' ELSE scanStart
  /\ UNCHANGED scanIssued
  /\ UNCHANGED <<retryVars, fnVars, actVars, plVars>>

\* line 76: the chain head is read once per execution
GetCurrentBlock ==
  /\ pc = "getCurrentBlock"
  /\ networkBlockNum' = head
  /\ pc' = "getCollectedEventCount"
  /\ UNCHANGED <<head, table, input, stopRequested, progress, startBlock,
                 currentBlockNum, batch, activityAttempt, eventsFound, countAtStart, histVars>>
  /\ UNCHANGED <<retryVars, fnVars, actVars, scanVars, plVars>>

\* an initialisation that leaves eventsCollected at 0
GetCollectedEventCount_StartsAtZero ==
  /\ pc = "getCollectedEventCount"
  /\ progress' = [progress EXCEPT !.currentBlock = startBlock]
  /\ currentBlockNum' = startBlock
  /\ countAtStart' = 0
  /\ pc' = "loop"
  /\ UNCHANGED <<head, table, input, stopRequested, startBlock, networkBlockNum,
                 batch, activityAttempt, eventsFound, histVars>>
  /\ UNCHANGED <<retryVars, fnVars, actVars, scanVars, plVars>>

\* lines 79-84
GetCollectedEventCount ==
  /\ pc = "getCollectedEventCount"
  /\ progress' = [progress EXCEPT !.eventsCollected = getEventCount(table),
                                  !.currentBlock = startBlock]
  /\ currentBlockNum' = startBlock
  /\ countAtStart' = getEventCount(table)
  /\ pc' = "loop"
  /\ UNCHANGED <<head, table, input, stopRequested, startBlock, networkBlockNum,
                 batch, activityAttempt, eventsFound, histVars>>
  /\ UNCHANGED <<retryVars, fnVars, actVars, scanVars, plVars>>

\* lines 87-100: the loop condition holds and the next batch is issued
BeginBatch ==
  /\ pc = "loop"
  /\ LoopCondition
  /\ batch' = [fromBlock |-> currentBlockNum,
               toBlock |-> EndBlockNum(currentBlockNum, input.blockBatchSize,
                                       networkBlockNum)]
  /\ activityAttempt' = 1
  /\ issued' = Append(issued, batch')
  /\ pc' = "activity"
  /\ UNCHANGED <<head, table, input, stopRequested, progress, startBlock,
                 currentBlockNum, networkBlockNum, eventsFound, countAtStart, runs, segment,
                 stopAt, rangeLow, tainted, restarted>>
  /\ scanIssued' = Append(scanIssued, batch')
  /\ UNCHANGED scanStart
  /\ UNCHANGED <<retryVars, fnVars, actVars, plVars>>

\* lines 87-91 and 120-122: the loop condition fails and the workflow returns
ReturnProgress ==
  /\ pc = "loop"
  /\ ~LoopCondition
  /\ progress' = [progress EXCEPT !.isComplete =
                    IsComplete(progress.eventsCollected, input.targetEvents,
                               currentBlockNum, networkBlockNum)]
  /\ pc' = "done"
  /\ UNCHANGED <<head, table, input, stopRequested, startBlock, currentBlockNum,
                 networkBlockNum, batch, activityAttempt, eventsFound, countAtStart, histVars>>
  /\ UNCHANGED <<retryVars, fnVars, actVars, scanVars, plVars>>

\* an activity that returns without waiting for its insert
FetchAndStoreEvents_InsertNotAwaited ==
  /\ pc = "activity"
  /\ eventsFound' = Len(fetchAndStoreEvents(batch.fromBlock, batch.toBlock, head))
  /\ pc' = "activityDone"
  /\ UNCHANGED <<head, table, input, stopRequested, progress, startBlock,
                 currentBlockNum, networkBlockNum, batch, activityAttempt,
                 countAtStart, histVars>>
  /\ UNCHANGED <<retryVars, fnVars, actVars, scanVars, plVars>>

\* the activity fetchAndStoreEvents runs to its end (activities/index.ts:75-121)
FetchAndStoreEvents ==
  /\ pc = "activity"
  /\ LET events == fetchAndStoreEvents(batch.fromBlock, batch.toBlock, head)
     IN  /\ table' = insertTransferEvents(table, events)
         /\ eventsFound' = Len(events)
  /\ pc' = "activityDone"
  /\ UNCHANGED <<head, input, stopRequested, progress, startBlock, currentBlockNum,
                 networkBlockNum, batch, activityAttempt, countAtStart, histVars>>
  /\ UNCHANGED <<retryVars, fnVars, actVars, scanVars, plVars>>

\* a failure that is swallowed: the batch counts as done with no events
ActivityFails_SkipsRange ==
  /\ pc = "activity"
  /\ eventsFound' = 0
  /\ pc' = "activityDone"
  /\ UNCHANGED <<head, table, input, stopRequested, progress, startBlock,
                 currentBlockNum, networkBlockNum, batch, activityAttempt,
                 countAtStart, histVars>>
  /\ UNCHANGED <<retryVars, fnVars, actVars, scanVars, plVars>>

\* the activity throws before its insert; Temporal retries it up to
\* maximumAttempts times and then fails the workflow (lines 18-28)
ActivityFails ==
  /\ pc = "activity"
  /\ IF activityAttempt < MaximumAttempts
     THEN /\ activityAttempt' = activityAttempt + 1
          /\ UNCHANGED <<pc, input, stopRequested, progress, startBlock,
                         currentBlockNum, networkBlockNum, batch, eventsFound, countAtStart,
                         issued>>
     ELSE ExecutionLost("failed")
  /\ UNCHANGED <<head, table, runs, segment, stopAt, rangeLow, tainted,
                 restarted>>
  /\ IF activityAttempt < MaximumAttempts
     THEN UNCHANGED scanVars
     ELSE scanIssued' = <<>> /\ scanStart' = 0
  /\ UNCHANGED <<retryVars, fnVars, actVars, plVars>>

\* a checkpoint that carries progress.currentBlock, the end of the batch
UpdateProgress_CarriesProgressBlock ==
  /\ pc = "activityDone"
  /\ LET updated == UpdatedProgress(progress, eventsFound, currentBlockNum,
                                    batch.toBlock)
         next == batch.toBlock + 1
     IN  IF updated.blocksProcessed > ContinueAsNewThreshold
         THEN /\ WorkflowBegin([input EXCEPT
                                  !.startFromBlock = Start(updated.currentBlock)])
              /\ segment' = segment + 1
         ELSE /\ progress' = updated
              /\ currentBlockNum' = next
              /\ pc' = "sleep"
              /\ UNCHANGED <<input, stopRequested, startBlock, networkBlockNum,
                             batch, activityAttempt, eventsFound, countAtStart, issued, segment>>
  /\ UNCHANGED <<head, table, runs, stopAt, rangeLow, tainted, restarted>>
  /\ UNCHANGED <<retryVars, fnVars, actVars, scanVars, plVars>>

\* a cursor that moves to the end of the batch, not past it
UpdateProgress_CursorAtBatchEnd ==
  /\ pc = "activityDone"
  /\ LET updated == UpdatedProgress(progress, eventsFound, currentBlockNum,
                                    batch.toBlock)
         next == batch.toBlock
     IN  IF updated.blocksProcessed > ContinueAsNewThreshold
         THEN /\ WorkflowBegin([input EXCEPT !.startFromBlock = Start(next)])
              /\ segment' = segment + 1
         ELSE /\ progress' = updated
              /\ currentBlockNum' = next
              /\ pc' = "sleep"
              /\ UNCHANGED <<input, stopRequested, startBlock, networkBlockNum,
                             batch, activityAttempt, eventsFound, countAtStart, issued, segment>>
  /\ UNCHANGED <<head, table, runs, stopAt, rangeLow, tainted, restarted>>
  /\ UNCHANGED <<retryVars, fnVars, actVars, scanVars, plVars>>

\* lines 102-114: progress update, then continue-as-new or the delay
UpdateProgress ==
  /\ pc = "activityDone"
  /\ LET updated == UpdatedProgress(progress, eventsFound, currentBlockNum,
                                    batch.toBlock)
         next == batch.toBlock + 1
     IN  IF updated.blocksProcessed > ContinueAsNewThreshold
         THEN /\ WorkflowBegin([input EXCEPT !.startFromBlock = Start(next)])
              /\ segment' = segment + 1
         ELSE /\ progress' = updated
              /\ currentBlockNum' = next
              /\ pc' = "sleep"
              /\ UNCHANGED <<input, stopRequested, startBlock, networkBlockNum,
                             batch, activityAttempt, eventsFound, countAtStart, issued, segment>>
  /\ UNCHANGED <<head, table, runs, stopAt, rangeLow, tainted, restarted>>
  /\ UNCHANGED <<retryVars, fnVars, actVars, scanVars, plVars>>

\* line 117: the delay between batches has elapsed
Sleep ==
  /\ pc = "sleep"
  /\ pc' = "loop"
  /\ UNCHANGED <<head, table, input, stopRequested, progress, startBlock,
                 currentBlockNum, networkBlockNum, batch, activityAttempt, eventsFound, countAtStart,
                 histVars>>
  /\ UNCHANGED <<retryVars, fnVars, actVars, scanVars, plVars>>

\* lines 65-67: the handler of stopCollectionSignal (temporal/client.ts stopWorkflow)
StopCollection ==
  /\ pc \in Running
  /\ ~stopRequested
  /\ stopRequested' = TRUE
  /\ stopAt' = IF stopAt # "none" THEN stopAt
                ELSE IF pc = "activity" THEN "activity" ELSE "boundary"
  /\ UNCHANGED <<head, table, pc, input, progress, startBlock, currentBlockNum,
                 networkBlockNum, batch, activityAttempt, eventsFound, countAtStart, runs, segment,
                 issued, rangeLow, tainted, restarted>>
  /\ UNCHANGED <<retryVars, fnVars, actVars, scanVars, plVars>>

\* the execution is interrupted (terminated) at any of its suspension points
Interrupt ==
  /\ pc \in Running
  /\ ExecutionLost("interrupted")
  /\ UNCHANGED <<head, table, runs, segment, stopAt, rangeLow, tainted,
                 restarted>>
  /\ scanIssued' = <<>>
  /\ scanStart' = 0
  /\ UNCHANGED <<retryVars, fnVars, actVars, plVars>>

\* the network produces a block.  The program reads the head only in
\* getStartingBlock and getCurrentBlock (the ranges it fetches end at the head
\* it has read), so the blocks produced since the last read appear where the
\* next step reads the head.
NewBlock ==
  /\ pc \in {"getStartingBlock", "getCurrentBlock"}
  /\ head < Head0 + MaxNewBlocks
  /\ head' = head + 1
  /\ UNCHANGED <<storeVars, wfVars, histVars>>
  /\ UNCHANGED <<retryVars, fnVars, actVars, scanVars, plVars>>

\* a background merge of ReplacingMergeTree replaces an older row by a newer
\* row of the same sorting key
BackgroundMerge ==
  /\ \E e \in table :
        /\ Replaced(table, e)
        /\ table' = DropEntry(table, e)
  /\ UNCHANGED <<chainVars, wfVars, histVars>>
  /\ UNCHANGED <<retryVars, fnVars, actVars, scanVars, plVars>>

Next ==
  \/ StartWorkflow
  \/ GetStartingBlock
  \/ GetCurrentBlock
  \/ GetCollectedEventCount
  \/ BeginBatch
  \/ ReturnProgress
  \/ FetchAndStoreEvents
  \/ ActivityFails
  \/ UpdateProgress
  \/ Sleep
  \/ StopCollection
  \/ Interrupt
  \/ NewBlock
  \/ BackgroundMerge

Spec == Init /\ [][Next]_vars

\* one withRetry call with any failures of fn
NextRetry ==
  \/ WithRetry
  \/ FnResolves
  \/ FnRejects
  \/ SleepEnds

SpecRetry == Init /\ [][NextRetry]_vars

(***************************************************************************)
(* The store alone: any caller of insertTransferEvents, and merges         *)
(***************************************************************************)
StoreEvents ==
  { [transactionHash |-> "ta", logIndex |-> i, blockNumber |-> b, blockTimestamp |-> ts]
      : i \in {0, 1}, b \in {5, 6}, ts \in {60, 72} }

EventBatches ==
  { <<e>> : e \in StoreEvents } \cup { <<e1, e2>> : e1 \in StoreEvents, e2 \in StoreEvents }

InsertTransferEvents ==
  /\ \E events \in EventBatches :
        /\ Cardinality(table) + Len(events) <= MaxRows
        /\ table' = insertTransferEvents(table, events)
  /\ UNCHANGED <<chainVars, wfVars, histVars, retryVars, fnVars, actVars, scanVars, plVars>>

NextStore ==
  \/ InsertTransferEvents
  \/ BackgroundMerge

SpecStore == Init /\ [][NextStore]_vars

(***************************************************************************)
(* The RPC calls of fetchAndStoreEvents: the two log queries and the        *)
(* receipt fetches go through withRetry with the options of                 *)
(* config.collection, the block headers of getBlocks go to the client       *)
(***************************************************************************)
\* fetchTransferEvents (events.ts:55-77): withRetry(() => client.getLogs(...))
GetLogsCall ==
  \E maxRetries \in 0..MaxMaxRetries : \E policy \in DelayPolicies :
     /\ rpc' = Rpc("eth_getLogs", maxRetries)
     /\ StartRetry(Options(maxRetries, policy))

\* enrichWithGasData (events.ts:124-131): withRetry(() => getTransactionReceipt(...))
GetTransactionReceiptCall ==
  \E maxRetries \in 0..MaxMaxRetries : \E policy \in DelayPolicies :
     /\ rpc' = Rpc("eth_getTransactionReceipt", maxRetries)
     /\ StartRetry(Options(maxRetries, policy))

\* getBlocks (client.ts:76-78): client.getBlock({ blockNumber: num })
GetBlockCall ==
  /\ retryPc = "idle"
  /\ \E maxRetries \in 0..MaxMaxRetries : rpc' = Rpc("eth_getBlockByNumber", maxRetries)
  /\ retryPc' = "client"
  /\ UNCHANGED <<opts, attempt, lastError, thrown, calls, sleeps, errors, returned, delay>>
  /\ UNCHANGED <<chainVars, storeVars, wfVars, histVars, fnVars, actVars, scanVars, plVars>>

\* the client call of getBlocks resolves
ClientResolves ==
  /\ retryPc = "client"
  /\ calls' = calls + 1
  /\ returned' = calls + 1
  /\ retryPc' = "returned"
  /\ UNCHANGED <<opts, attempt, lastError, thrown, sleeps, errors, delay, rpc>>
  /\ UNCHANGED <<chainVars, storeVars, wfVars, histVars, fnVars, actVars, scanVars, plVars>>

\* the client call of getBlocks rejects: Promise.all rejects and the error
\* leaves getBlocks and fetchAndStoreEvents
ClientRejects ==
  /\ retryPc = "client"
  /\ \E error \in Errors :
        /\ calls' = calls + 1
        /\ errors' = Append(errors, error)
        /\ thrown' = error
  /\ retryPc' = "thrown"
  /\ UNCHANGED <<opts, attempt, lastError, sleeps, returned, delay, rpc>>
  /\ UNCHANGED <<chainVars, storeVars, wfVars, histVars, fnVars, actVars, scanVars, plVars>>

NextRpc ==
  \/ GetLogsCall
  \/ GetTransactionReceiptCall
  \/ GetBlockCall
  \/ ClientResolves
  \/ ClientRejects
  \/ FnResolves
  \/ FnRejects
  \/ SleepEnds

SpecRpc == Init /\ [][NextRpc]_vars

(***************************************************************************)
(* Functions applied on their own to any input                             *)
(***************************************************************************)
Log(transactionHash, logIndex, blockNumber, from, to) ==
  [transactionHash |-> transactionHash, logIndex |-> logIndex,
   blockNumber |-> blockNumber, from |-> from, to |-> to]

\* logs a node may return to the two queries of fetchTransferEvents; two of
\* them are transfers of the target address to itself
QueryLogs ==
  { Log("ta", 0, 5, TargetAddress, "other"),
    Log("ta", 1, 5, TargetAddress, TargetAddress),
    Log("tb", 0, 6, TargetAddress, TargetAddress),
    Log("tb", 1, 6, "other", TargetAddress) }

\* lines 80-87 of fetchTransferEvents on any two query results
CombineLogs ==
  /\ fn = "none"
  /\ \E F \in SUBSET { l \in QueryLogs : l.from = TargetAddress } :
     \E T \in SUBSET { l \in QueryLogs : l.to = TargetAddress } :
        /\ arg' = [logsFrom |-> SortLogs(F), logsTo |-> SortLogs(T)]
        /\ out' = CombineAndDeduplicate(SortLogs(F), SortLogs(T))
  /\ fn' = "fetchTransferEvents"
  /\ UNCHANGED <<chainVars, storeVars, wfVars, histVars, retryVars, actVars, scanVars, plVars>>

\* block numbers of the logs given to getUniqueBlockNumbers
BlockNumbers == {Null, 100, 150, 200}

RECURSIVE LogLists(_)
LogLists(n) ==
  IF n = 0 THEN { <<>> }
  ELSE LogLists(n - 1) \cup
       { Append(q, [blockNumber |-> b]) :
           q \in { x \in LogLists(n - 1) : Len(x) = n - 1 }, b \in BlockNumbers }

GetUniqueBlockNumbers ==
  /\ fn = "none"
  /\ \E logs \in LogLists(MaxLogs) :
        /\ arg' = logs
        /\ out' = getUniqueBlockNumbers(logs)
  /\ fn' = "getUniqueBlockNumbers"
  /\ UNCHANGED <<chainVars, storeVars, wfVars, histVars, retryVars, actVars, scanVars, plVars>>

\* the rows of a day: none, one, or two of different prices
DayEvents == { <<>>, <<10>>, <<10, 30>> }

GetMA7EffectiveGasPrice ==
  /\ fn = "none"
  /\ \E events \in [1..MaxDay -> DayEvents] :
        /\ arg' = events
        /\ out' = getMA7EffectiveGasPrice(events)
  /\ fn' = "getMA7EffectiveGasPrice"
  /\ UNCHANGED <<chainVars, storeVars, wfVars, histVars, retryVars, actVars, scanVars, plVars>>

\* the module config/index.ts is evaluated
LoadConfig ==
  /\ fn = "none"
  /\ \E env \in [EnvKeys -> EnvValues] :
        /\ arg' = env
        /\ out' = config(env)
  /\ fn' = "config"
  /\ UNCHANGED <<chainVars, storeVars, wfVars, histVars, retryVars, actVars, scanVars, plVars>>

\* rows the table may hold when the report is made: rows at the first and
\* the last second of a day, an event stored twice, days without rows
PhysicalRow(ts, price, cost, ver) ==
  [block_timestamp |-> ts, effective_gas_price |-> price, gas_cost |-> cost,
   ver |-> ver]

AnalysisRows ==
  { PhysicalRow(SecondsPerDay, 10, 5, 1),
    PhysicalRow(2 * SecondsPerDay - 1, 30, 7, 1),
    PhysicalRow(2 * SecondsPerDay, 10, 11, 1),
    PhysicalRow(2 * SecondsPerDay, 10, 11, 2),
    PhysicalRow(3 * SecondsPerDay + 1, 30, 13, 1),
    PhysicalRow(5 * SecondsPerDay - 1, 10, 17, 1),
    PhysicalRow(MaxDay * SecondsPerDay, 30, 19, 1),
    PhysicalRow((MaxDay + 3) * SecondsPerDay + 1, 10, 23, 1) }

\* the report is generated from the rows of the table
GenerateAnalysisReport ==
  /\ fn = "none"
  /\ \E physical \in SUBSET AnalysisRows :
        /\ arg' = physical
        /\ out' = generateAnalysisReport(physical)
  /\ fn' = "generateAnalysisReport"
  /\ UNCHANGED <<chainVars, storeVars, wfVars, histVars, retryVars, actVars, scanVars, plVars>>

\* values of MIN_EVENTS and BLOCK_BATCH_SIZE in the environment
NumberTexts == { Unset, Text(<<>>), Text(<<7, 0, 0, 0>>), Text(<<5, 0>>) }

\* npm run start:workflow: the command builds the workflow argument from
\* config; eventsCollected gives the count the started workflow begins with
StartWorkflowCommand ==
  /\ fn = "none"
  /\ \E minEvents \in NumberTexts, blockBatchSize \in NumberTexts,
        eventsCollected \in {0, 50, 6000} :
        LET env == [MIN_EVENTS |-> minEvents, BLOCK_BATCH_SIZE |-> blockBatchSize]
        IN  /\ arg' = [env |-> env, eventsCollected |-> eventsCollected]
            /\ out' = StartWorkflowArgs(env)
  /\ fn' = "startWorkflow"
  /\ UNCHANGED <<chainVars, storeVars, wfVars, histVars, retryVars, actVars, scanVars, plVars>>

\* chain heads of a young chain, around the two lookbacks, and of a chain as
\* long as the Ethereum mainnet
ChainHeads ==
  { 0, 1, 100000, LookbackBlocks - 1, LookbackBlocks, LookbackBlocks + 1,
    5000000, 2 * BlocksPerYear - 1, 2 * BlocksPerYear, 2 * BlocksPerYear + 1,
    20000000 }

\* a fresh run (no stored events) computes its starting block from the head
FreshStart ==
  /\ fn = "none"
  /\ \E h \in ChainHeads :
        /\ arg' = h
        /\ out' = [workflow |-> getStartingBlock({}, h),
                   pipeline |-> PipelineStartBlock({}, h)]
  /\ fn' = "freshStart"
  /\ UNCHANGED <<chainVars, storeVars, wfVars, histVars, retryVars, actVars, scanVars, plVars>>

NextFn ==
  \/ CombineLogs
  \/ GetUniqueBlockNumbers
  \/ GetMA7EffectiveGasPrice
  \/ LoadConfig
  \/ GenerateAnalysisReport
  \/ StartWorkflowCommand
  \/ FreshStart

SpecFn == Init /\ [][NextFn]_vars

(***************************************************************************)
(* One call of fetchAndStoreEvents step by step: the logs of the range,     *)
(* the block timestamps, the receipt fetches of processEventsBatch in       *)
(* sub-batches, and the insert.  The receipts carry the gas fields, which    *)
(* no row of the model keeps.                                               *)
(***************************************************************************)
\* const batchSize = 50 of processEventsBatch
ReceiptBatchSize == 50

\* the logs fetchTransferEvents may return for a range: n logs in chain
\* order, two to a block; the data of log `bad` does not decode as a Transfer
BatchLogs(n, bad) ==
  [k \in 1..n |->
     [transactionHash |-> k,
      logIndex        |-> k % 2,
      blockNumber     |-> Head0 - MaxBatchLogs + (k \div 2),
      decodable       |-> k # bad]]

\* timestamps.set(num, Number(block.timestamp)) for every block of getBlocks
TimestampsOf(blockNumbers) ==
  [b \in { blockNumbers[k] : k \in 1..Len(blockNumbers) } |-> BlockTimestamp(b)]

\* a lookup that never finds the block
ResolveTimestamp_AlwaysFallback(blockTimestamps, blockNumber) == 0

\* blockTimestamps.get(log.blockNumber!) || 0
ResolveTimestamp(blockTimestamps, blockNumber) ==
  IF blockNumber \in DOMAIN blockTimestamps /\ blockTimestamps[blockNumber] # 0
  THEN blockTimestamps[blockNumber]
  ELSE 0

\* the TransferEvent decodeTransferEvent returns for a log that decodes
decodeTransferEvent(log, blockTimestamp) ==
  [transactionHash |-> log.transactionHash,
   logIndex        |-> log.logIndex,
   blockNumber     |-> log.blockNumber,
   blockTimestamp  |-> blockTimestamp]

\* no slicing: everything from index i on
Slice_ToEnd(q, i, size) == SubSeq(q, i + 1, Len(q))

\* q.slice(i, i + size), i counted from 0
Slice(q, i, size) == SubSeq(q, i + 1, Min(i + size, Len(q)))

\* batchResults of a Promise.all that resolved: the events of the sub-batch
\* in the order of its logs
BatchResults(subBatch, blockTimestamps) ==
  [k \in 1..Len(subBatch) |->
     decodeTransferEvent(subBatch[k],
                         ResolveTimestamp(blockTimestamps, subBatch[k].blockNumber))]

\* lines 88-98: the logs of the range arrive; no logs, the activity returns 0
FetchLogs ==
  /\ actPc = "idle"
  /\ \E n \in 0..MaxBatchLogs :
     \E bad \in { b \in {0, 1, ReceiptBatchSize, n} : b <= n } :
        /\ actLogs' = BatchLogs(n, bad)
        /\ IF n = 0
           THEN actPc' = "returned" /\ returnValue' = 0
           ELSE actPc' = "getBlocks" /\ UNCHANGED returnValue
  /\ UNCHANGED <<timestamps, loopIndex, outstanding, receiptFailed, enriched>>
  /\ UNCHANGED <<chainVars, storeVars, wfVars, histVars, retryVars, fnVars, scanVars, plVars>>

\* lines 103-108: getUniqueBlockNumbers, getBlocks, the timestamps Map; then
\* processEventsBatch begins (events = [], i = 0)
GetBlocks ==
  /\ actPc = "getBlocks"
  /\ timestamps' = TimestampsOf(getUniqueBlockNumbers(actLogs))
  /\ loopIndex' = 0
  /\ enriched' = <<>>
  /\ actPc' = "loop"
  /\ UNCHANGED <<actLogs, outstanding, receiptFailed, returnValue>>
  /\ UNCHANGED <<chainVars, storeVars, wfVars, histVars, retryVars, fnVars, scanVars, plVars>>

\* fetchTransferEvents, getBlocks or insertTransferEvents rejects: the
\* activity throws
CallFails ==
  /\ actPc \in {"idle", "getBlocks", "insert"}
  /\ actPc' = "thrown"
  /\ UNCHANGED <<actLogs, timestamps, loopIndex, outstanding, receiptFailed,
                 enriched, returnValue>>
  /\ UNCHANGED <<chainVars, storeVars, wfVars, histVars, retryVars, fnVars, scanVars, plVars>>

\* events.ts:158-166: batch.map runs the callback on every log of the slice: a
\* log that decodes gets its receipt fetch issued, a log that does not
\* rejects its promise, and Promise.all with it
StartSubBatch ==
  /\ actPc = "loop"
  /\ loopIndex < Len(actLogs)
  /\ LET subBatch == Slice(actLogs, loopIndex, ReceiptBatchSize)
         decoded == { k \in 1..Len(subBatch) : subBatch[k].decodable }
     IN  /\ outstanding' = outstanding + Cardinality(decoded)
         /\ actPc' = IF Cardinality(decoded) = Len(subBatch)
                     THEN "awaitAll" ELSE "thrown"
  /\ UNCHANGED <<actLogs, timestamps, loopIndex, receiptFailed, enriched,
                 returnValue>>
  /\ UNCHANGED <<chainVars, storeVars, wfVars, histVars, retryVars, fnVars, scanVars, plVars>>

\* a rejection that the callback catches: the fetch counts as settled and
\* the batch goes on
ReceiptRejects_Swallowed ==
  /\ outstanding > 0
  /\ outstanding' = outstanding - 1
  /\ receiptFailed' = TRUE
  /\ IF actPc = "awaitAll" /\ outstanding = 1
     THEN /\ enriched' = enriched \o BatchResults(Slice(actLogs, loopIndex,
                                                        ReceiptBatchSize),
                                                  timestamps)
          /\ IF loopIndex + ReceiptBatchSize < Len(actLogs)
             THEN actPc' = "delay" /\ UNCHANGED loopIndex
             ELSE actPc' = "loop" /\ loopIndex' = loopIndex + ReceiptBatchSize
     ELSE UNCHANGED <<actPc, enriched, loopIndex>>
  /\ UNCHANGED <<actLogs, timestamps, returnValue>>
  /\ UNCHANGED <<chainVars, storeVars, wfVars, histVars, retryVars, fnVars, scanVars, plVars>>

\* a receipt fetch is rejected once its retries are used up (lines 124-131):
\* Promise.all rejects with it and processEventsBatch throws; the other
\* fetches of the sub-batch stay in flight
ReceiptRejects ==
  /\ outstanding > 0
  /\ outstanding' = outstanding - 1
  /\ receiptFailed' = TRUE
  /\ actPc' = IF actPc = "awaitAll" THEN "thrown" ELSE actPc
  /\ UNCHANGED <<actLogs, timestamps, loopIndex, enriched, returnValue>>
  /\ UNCHANGED <<chainVars, storeVars, wfVars, histVars, retryVars, fnVars, scanVars, plVars>>

\* a receipt fetch resolves; with the last one of the sub-batch Promise.all
\* resolves: events.push(...batchResults), then the delay if logs remain
\* (events.ts:160-173)
ReceiptResolves ==
  /\ outstanding > 0
  /\ outstanding' = outstanding - 1
  /\ IF actPc = "awaitAll" /\ outstanding = 1
     THEN /\ enriched' = enriched \o BatchResults(Slice(actLogs, loopIndex,
                                                        ReceiptBatchSize),
                                                  timestamps)
          /\ IF loopIndex + ReceiptBatchSize < Len(actLogs)
             THEN actPc' = "delay" /\ UNCHANGED loopIndex
             ELSE actPc' = "loop" /\ loopIndex' = loopIndex + ReceiptBatchSize
     ELSE UNCHANGED <<actPc, enriched, loopIndex>>
  /\ UNCHANGED <<actLogs, timestamps, receiptFailed, returnValue>>
  /\ UNCHANGED <<chainVars, storeVars, wfVars, histVars, retryVars, fnVars, scanVars, plVars>>

\* the 100 ms between sub-batches have passed: i += batchSize
SubBatchDelay ==
  /\ actPc = "delay"
  /\ loopIndex' = loopIndex + ReceiptBatchSize
  /\ actPc' = "loop"
  /\ UNCHANGED <<actLogs, timestamps, outstanding, receiptFailed, enriched,
                 returnValue>>
  /\ UNCHANGED <<chainVars, storeVars, wfVars, histVars, retryVars, fnVars, scanVars, plVars>>

\* the for loop ends and processEventsBatch returns events
ReturnEvents ==
  /\ actPc = "loop"
  /\ loopIndex >= Len(actLogs)
  /\ actPc' = "insert"
  /\ UNCHANGED <<actLogs, timestamps, loopIndex, outstanding, receiptFailed,
                 enriched, returnValue>>
  /\ UNCHANGED <<chainVars, storeVars, wfVars, histVars, retryVars, fnVars, scanVars, plVars>>

\* activities/index.ts:116-120: insertTransferEvents(events), return
\* events.length
StoreEnriched ==
  /\ actPc = "insert"
  /\ table' = insertTransferEvents(table, enriched)
  /\ returnValue' = Len(enriched)
  /\ actPc' = "returned"
  /\ UNCHANGED <<actLogs, timestamps, loopIndex, outstanding, receiptFailed,
                 enriched>>
  /\ UNCHANGED <<chainVars, wfVars, histVars, retryVars, fnVars, scanVars, plVars>>

NextActivity ==
  \/ FetchLogs
  \/ GetBlocks
  \/ CallFails
  \/ StartSubBatch
  \/ ReceiptRejects
  \/ ReceiptResolves
  \/ SubBatchDelay
  \/ ReturnEvents
  \/ StoreEnriched

SpecActivity == Init /\ [][NextActivity]_vars

(***************************************************************************)
(* commands/pipeline.ts: runPipeline, and the two collection loops side by *)
(* side                                                                    *)
(***************************************************************************)
\* the while condition of line 65
PipelineLoopCondition ==
  /\ totalEvents < plConfig.minEvents
  /\ plCurrentBlockNum < currentBlock

\* a range of batchSize blocks: its end is one block lower
RangeEnd_Exclusive(cur, batchSize, cb) ==
  LET endBlock == cur + batchSize - 1
  IN  IF endBlock > cb THEN cb ELSE endBlock

\* lines 66-67
RangeEnd(cur, batchSize, cb) ==
  LET endBlock == cur + batchSize
  IN  IF endBlock > cb THEN cb ELSE endBlock

\* line 107, evaluated after line 104 has moved currentBlockNum to next
BlocksProcessedInc(rangeEnd, next, batchSize) ==
  rangeEnd - (next - batchSize - 1)

Cfg(minEvents, blockBatchSize) ==
  [minEvents |-> minEvents, blockBatchSize |-> blockBatchSize]

\* MIN_EVENTS and BLOCK_BATCH_SIZE of the environment of the process
PipelineConfigs ==
  { Cfg(10, 108000), Cfg(2, 107999), Cfg(10, 300000), Cfg(10, 0) }

\* the scans of the pipeline in the model take at most MaxBatches batches
MaxBatches == 8

\* pipeline processes of a behaviour
MaxPipelineRuns == 1

\* ranges of an earlier collection whose events the stores hold at the start
EarlierRanges ==
  { [fromBlock |-> 3, toBlock |-> 3],
    [fromBlock |-> 3, toBlock |-> 500004],
    [fromBlock |-> 500004, toBlock |-> 500004],
    [fromBlock |-> 716003, toBlock |-> 716003] }

\* the store of the workflow and the store of the pipeline hold the events
\* of the same earlier collection
EarlierCollection ==
  /\ pc = "idle" /\ runs = 0 /\ table = {}
  /\ plPc = "idle" /\ plRuns = 0 /\ plTable = {}
  /\ \E r \in EarlierRanges :
        LET events == fetchAndStoreEvents(r.fromBlock, r.toBlock, head)
        IN  /\ table' = insertTransferEvents(table, events)
            /\ plTable' = insertTransferEvents(plTable, events)
            /\ rangeLow' = r.fromBlock
  /\ UNCHANGED <<plPc, plConfig, currentBlock, plStartBlock, totalEvents,
                 plCurrentBlockNum, blocksProcessed, plIssued, plRuns>>
  /\ UNCHANGED <<runs, segment, stopAt, issued, tainted, restarted>>
  /\ UNCHANGED <<chainVars, wfVars, retryVars, fnVars, actVars, scanVars>>

\* The network produces a block.  The pipeline reads the head once, in step
\* 2, so the blocks produced before that read appear there.
NewBlockBeforePipeline ==
  /\ plPc = "idle"
  /\ head < Head0 + MaxNewBlocks
  /\ head' = head + 1
  /\ UNCHANGED <<storeVars, wfVars, histVars, retryVars, fnVars, actVars,
                 scanVars, plVars>>

\* a pipeline process starts: steps 1 and 2 and lines 60-63.  The counter
\* blocksProcessed lives in the process and starts at 0.
RunPipeline ==
  /\ plPc \in {"idle", "done", "failed"}
  /\ plRuns < MaxPipelineRuns
  /\ \E cfg \in PipelineConfigs :
        LET start == PipelineStartBlock(plTable, head)
        IN  /\ \/ start < 0
               \/ head - start <= MaxBatches * (cfg.blockBatchSize + 1)
            /\ plConfig' = cfg
            /\ currentBlock' = head
            /\ plStartBlock' = start
            /\ plCurrentBlockNum' = start
  /\ totalEvents' = getEventCount(plTable)
  /\ blocksProcessed' = 0
  /\ plIssued' = <<>>
  /\ plRuns' = plRuns + 1
  /\ plPc' = "loop"
  /\ UNCHANGED plTable
  /\ UNCHANGED <<chainVars, storeVars, wfVars, histVars, retryVars, fnVars,
                 actVars, scanVars>>

\* one iteration of the loop (lines 65-111): the range is fetched, its
\* events are processed and stored, the cursor and the counter move
PipelineBatch ==
  /\ plPc = "loop"
  /\ PipelineLoopCondition
  /\ plCurrentBlockNum >= 0
  /\ LET rangeEnd == RangeEnd(plCurrentBlockNum, plConfig.blockBatchSize,
                              currentBlock)
         events == processEventsBatch(
                     fetchTransferEvents(plCurrentBlockNum, rangeEnd, head))
     IN  /\ plIssued' = Append(plIssued, [fromBlock |-> plCurrentBlockNum,
                                          toBlock |-> rangeEnd])
         /\ plTable' = insertTransferEvents(plTable, events)
         /\ totalEvents' = totalEvents + Len(events)
         /\ plCurrentBlockNum' = rangeEnd + 1
         /\ blocksProcessed' =
               blocksProcessed + BlocksProcessedInc(rangeEnd, plCurrentBlockNum',
                                                    plConfig.blockBatchSize)
  /\ UNCHANGED <<plPc, plConfig, currentBlock, plStartBlock, plRuns>>
  /\ UNCHANGED <<chainVars, storeVars, wfVars, histVars, retryVars, fnVars,
                 actVars, scanVars>>

\* fetchTransferEvents throws on a range that starts below block 0 (a
\* negative block number has no hex quantity); the catch of line 144
\* rethrows and the process exits with code 1
PipelineFails ==
  /\ plPc = "loop"
  /\ PipelineLoopCondition
  /\ plCurrentBlockNum < 0
  /\ plIssued' = Append(plIssued,
                        [fromBlock |-> plCurrentBlockNum,
                         toBlock |-> RangeEnd(plCurrentBlockNum,
                                              plConfig.blockBatchSize,
                                              currentBlock)])
  /\ plPc' = "failed"
  /\ UNCHANGED <<plConfig, currentBlock, plStartBlock, totalEvents,
                 plCurrentBlockNum, blocksProcessed, plTable, plRuns>>
  /\ UNCHANGED <<chainVars, storeVars, wfVars, histVars, retryVars, fnVars,
                 actVars, scanVars>>

\* the loop condition fails: steps 4 and 5 and the exit with code 0
PipelineCompletes ==
  /\ plPc = "loop"
  /\ ~PipelineLoopCondition
  /\ plPc' = "done"
  /\ UNCHANGED <<plConfig, currentBlock, plStartBlock, totalEvents,
                 plCurrentBlockNum, blocksProcessed, plIssued, plTable, plRuns>>
  /\ UNCHANGED <<chainVars, storeVars, wfVars, histVars, retryVars, fnVars,
                 actVars, scanVars>>

\* the workflow and the pipeline, each on its store, with activities that
\* return and no stop signal
NextLoops ==
  \/ EarlierCollection
  \/ StartWorkflow
  \/ StartWorkflowEdge
  \/ GetStartingBlock
  \/ GetCurrentBlock
  \/ GetCollectedEventCount
  \/ BeginBatch
  \/ ReturnProgress
  \/ FetchAndStoreEvents
  \/ UpdateProgress
  \/ Sleep
  \/ NewBlock
  \/ NewBlockBeforePipeline
  \/ RunPipeline
  \/ PipelineBatch
  \/ PipelineFails
  \/ PipelineCompletes

SpecLoops == Init /\ [][NextLoops]_vars

\* a step of a workflow execution other than the return of the activity:
\* Temporal schedules the next workflow task of an open execution
WorkflowStep ==
  \/ GetStartingBlock
  \/ GetCurrentBlock
  \/ GetCollectedEventCount
  \/ BeginBatch
  \/ ReturnProgress
  \/ UpdateProgress
  \/ Sleep

\* a step of the pipeline process other than an iteration of the loop: the
\* event loop of Node.js runs the continuation of a settled await
PipelineStep ==
  \/ PipelineFails
  \/ PipelineCompletes

\* Every call of fetchAndStoreEvents returns.  This is weak fairness of
\* FetchAndStoreEvents: the action is enabled exactly when pc = "activity",
\* and every step of it changes pc.
ActivityReturns ==
  \/ []<>(pc # "activity")
  \/ []<><<FetchAndStoreEvents>>_vars

\* Every iteration of the pipeline loop on a valid range ends.  This is weak
\* fairness of PipelineBatch: the action is enabled exactly under its three
\* guards, and every step of it extends plIssued.
IterationEnds ==
  \/ []<>(~(plPc = "loop" /\ PipelineLoopCondition /\ plCurrentBlockNum >= 0))
  \/ []<><<PipelineBatch>>_vars

\* Either loop alone, with stop signals: the workflow on a store that starts
\* empty, or the pipeline on a store that may hold an earlier collection.
NextTermination ==
  \/ (plTable = {} /\ plRuns = 0 /\ StartWorkflow)
  \/ (plTable = {} /\ plRuns = 0 /\ StartWorkflowEdge)
  \/ WorkflowStep
  \/ FetchAndStoreEvents
  \/ StopCollection
  \/ NewBlock
  \/ (runs = 0 /\ EarlierCollection)
  \/ (runs = 0 /\ NewBlockBeforePipeline)
  \/ (runs = 0 /\ RunPipeline)
  \/ PipelineStep
  \/ PipelineBatch

\* every call of fetchAndStoreEvents returns, every delay elapses and every
\* task of an open execution or of the running process is scheduled
SpecTermination ==
  /\ Init
  /\ [][NextTermination]_vars
  /\ WF_vars(WorkflowStep)
  /\ WF_vars(PipelineStep)
  /\ ActivityReturns
  /\ IterationEnds

(***************************************************************************)
(* Properties                                                              *)
(***************************************************************************)
StoredRows(tbl) == { e.row : e \in tbl }

\* the rows one scan of [lo, hi] stores
RowsOfRange(lo, hi, h) ==
  LET events == fetchAndStoreEvents(lo, hi, h)
  IN  { Row(events[i]) : i \in 1..Len(events) }

MaxPersistedBlock(tbl) ==
  CHOOSE b \in { e.row.block_number : e \in tbl } :
    \A e \in tbl : e.row.block_number <= b

RECURSIVE FoundIn(_, _)
FoundIn(ranges, i) ==
  IF i > Len(ranges) THEN 0
  ELSE Len(fetchTransferEvents(ranges[i].fromBlock, ranges[i].toBlock, head))
       + FoundIn(ranges, i + 1)

AllRetryable(errs) == \A i \in 1..Len(errs) : isRetryableError(errs[i])

\* C1: an execution that follows an interrupted one and finds persisted events
\* starts at the maximum persisted block number + 1, and when it returns the
\* store holds exactly the rows one uninterrupted scan of the whole range
\* [first block of the range, last scanned block] stores.
C1_ResumeCorrectness ==
  /\ (/\ pc = "getCurrentBlock" /\ restarted /\ segment = 0
      /\ ~input.startFromBlock.has /\ table # {})
        => startBlock = MaxPersistedBlock(table) + 1
  /\ (pc = "done" /\ restarted /\ ~tainted)
        => StoredRows(table) = RowsOfRange(rangeLow, currentBlockNum - 1, head)

C1_Witness ==
  /\ pc = "done" /\ restarted /\ ~tainted /\ segment = 0
  /\ ~input.startFromBlock.has
  /\ issued # <<>>
  /\ \E e \in table : e.row.block_number < startBlock
  /\ \E e \in table : e.row.block_number >= startBlock

\* C2: fetch-and-store over a range whose events are all persisted already
\* does not increase the count getEventCount reports.
C2_RerunKeepsCount ==
  [][(/\ pc = "activity" /\ pc' = "activityDone"
      /\ RowsOfRange(batch.fromBlock, batch.toBlock, head) # {}
      /\ RowsOfRange(batch.fromBlock, batch.toBlock, head) \subseteq StoredRows(table))
       => getEventCount(table') <= getEventCount(table)]_vars

\* C3: the logically current rows (the rows a full merge keeps) hold at most
\* one row per (transaction_hash, log_index).
C3_SoleDedupKey ==
  \A r1 \in MergedRows(table) : \A r2 \in MergedRows(table) :
     (r1.transaction_hash = r2.transaction_hash /\ r1.log_index = r2.log_index)
       => r1 = r2

\* C4: once a stop signal has reached a scan, the scan issues no further batch.
C4_NoBatchAfterStop ==
  [][stopAt # "none" => ~(pc = "loop" /\ pc' = "activity")]_vars

C6_CompletionCondition ==
  pc = "done" =>
    /\ progress.isComplete <=> (\/ progress.eventsCollected >= progress.targetEvents
                                \/ currentBlockNum >= networkBlockNum)
    /\ ~progress.isComplete => stopRequested
    /\ progress.eventsCollected = countAtStart + FoundIn(issued, 1)

C6_Witness ==
  /\ pc = "done" /\ progress.isComplete
  /\ currentBlockNum >= networkBlockNum
  /\ progress.eventsCollected < progress.targetEvents
  /\ progress.eventsCollected > 0
  /\ progress.eventsCollected = Cardinality(table)

\* C7: a batch in flight has toBlock = min(fromBlock + blockBatchSize - 1,
\* chain head).
C7_BatchUpperBound ==
  pc \in {"activity", "activityDone"} =>
    batch.toBlock = Min(batch.fromBlock + input.blockBatchSize - 1, networkBlockNum)

\* C8: when an execution returns because the cursor reached the chain head
\* (target not met, no stop), its batches cover startBlock..chain head, each
\* block in exactly one batch.
C8_HeadReachedCoversAll ==
  (/\ pc = "done" /\ ~stopRequested
   /\ progress.eventsCollected < progress.targetEvents
   /\ startBlock <= networkBlockNum)
    => /\ issued # <<>>
       /\ issued[1].fromBlock = startBlock
       /\ \A i \in 1..Len(issued) : issued[i].fromBlock <= issued[i].toBlock
       /\ \A i \in 1..(Len(issued) - 1) : issued[i + 1].fromBlock = issued[i].toBlock + 1
       /\ issued[Len(issued)].toBlock = networkBlockNum

\* C9: withRetry invokes fn at most maxRetries + 1 times; when every attempt
\* fails with a retryable error it invokes fn maxRetries + 1 times, sleeps
\* maxRetries times and throws the error of the last attempt.
C9_RetryExhaustion ==
  /\ calls <= opts.maxRetries + 1
  /\ (retryPc = "thrown" /\ AllRetryable(errors))
       => /\ calls = opts.maxRetries + 1
          /\ sleeps = opts.maxRetries
          /\ thrown = errors[Len(errors)]

C9_Witness ==
  /\ retryPc = "thrown" /\ AllRetryable(errors)
  /\ opts.maxRetries = 2 /\ calls = 3

\* C10: when fn fails with an error the classifier calls non-retryable,
\* withRetry throws that error after one invocation and no sleep.
C10_NonRetryableShortCircuit ==
  (retryPc = "thrown" /\ Len(errors) >= 1 /\ ~isRetryableError(errors[1]))
    => /\ calls = 1
       /\ sleeps = 0
       /\ thrown = errors[1]

C10_Witness ==
  /\ retryPc = "thrown" /\ Len(errors) >= 1
  /\ opts.maxRetries >= 1
  /\ calls = 1 /\ sleeps = 0
  /\ errors[1].json = {"-32005"}
  /\ thrown = errors[1]

\* C11: when withRetry returns, fn failed k <= maxRetries times, each time with
\* a retryable error, and resolved on attempt k: fn was invoked k + 1 times,
\* k sleeps were made, and the value returned is the value of that last
\* invocation; a success on the first attempt costs one invocation and no sleep.
C11_SuccessAfterRetries ==
  retryPc = "returned" =>
    /\ attempt = Len(errors)
    /\ attempt <= opts.maxRetries
    /\ AllRetryable(errors)
    /\ calls = Len(errors) + 1
    /\ sleeps = Len(errors)
    /\ returned = calls
    /\ (Len(errors) = 0 => calls = 1 /\ sleeps = 0 /\ delay = 0)

C11_Witness ==
  /\ retryPc = "returned"
  /\ opts.maxRetries = 2
  /\ Len(errors) = 2
  /\ calls = 3 /\ sleeps = 2 /\ returned = 3

\* the marker texts of an error, of its message and of its JSON form
Texts(error) == error.message \cup error.json

RangeLimitTexts == {"10000 results", "-32005", "block range", "-32600"}

\* C12: an error whose text says that the range exceeds a result-count or
\* block-range limit is not retryable, whatever else its message contains.
C12_RangeErrorsNotRetryable ==
  \A i \in 1..Len(errors) :
     Texts(errors[i]) \cap RangeLimitTexts # {} => ~isRetryableError(errors[i])

\* C13: the delay of the sleep before retry number k (k = attempt) is within
\* [0, min(initialDelayMs * 2^k, maxDelayMs)].
C13_DelayWithinCap ==
  retryPc = "sleep" =>
    /\ 0 <= delay
    /\ delay <= opts.initialDelayMs * 2^attempt
    /\ delay <= opts.maxDelayMs

C13_Witness ==
  /\ retryPc = "sleep"
  /\ attempt = 2
  /\ opts.initialDelayMs * 2^attempt > opts.maxDelayMs
  /\ delay = 0

Range(q) == { q[i] : i \in 1..Len(q) }

\* C14: the merged result of the two queries holds every log that either
\* query returned and no (transactionHash, logIndex) twice.
C14_MergedOncePerKey ==
  fn = "fetchTransferEvents" =>
    /\ Range(out) = Range(arg.logsFrom) \cup Range(arg.logsTo)
    /\ \A i \in 1..Len(out) : \A j \in 1..Len(out) :
          LogKey(out[i]) = LogKey(out[j]) => i = j

C14_Witness ==
  /\ fn = "fetchTransferEvents"
  /\ \E l \in Range(arg.logsFrom) \cap Range(arg.logsTo) : l.from = l.to
  /\ Range(arg.logsFrom) # Range(arg.logsTo)
  /\ Len(out) < Len(arg.logsFrom) + Len(arg.logsTo)
  /\ Len(out) = 3

\* C15: a transient failure of an RPC call of a batch leaves
\* fetchAndStoreEvents only after the call was retried as often as the
\* configured maxRetries allows.
C15_TransientFailuresRetried ==
  (retryPc = "thrown" /\ rpc.method # "none" /\ isRetryableError(thrown))
    => /\ calls = rpc.maxRetries + 1
       /\ sleeps = rpc.maxRetries

\* C16: the scan starts at startFromBlock when the input carries one,
\* otherwise at the maximum persisted block number + 1 when rows exist,
\* otherwise at the chain head - the lookback window.
C16_StartingBlock ==
  [][(pc = "getStartingBlock" /\ pc' = "getCurrentBlock")
       => startBlock' =
            IF input.startFromBlock.has THEN input.startFromBlock.block
            ELSE IF table # {} THEN MaxPersistedBlock(table) + 1
            ELSE head - LookbackBlocks]_vars

C16_Witness ==
  /\ pc = "getCurrentBlock"
  /\ segment > 0
  /\ table # {}
  /\ startBlock = input.startFromBlock.block
  /\ startBlock # MaxPersistedBlock(table) + 1
  /\ startBlock # head - LookbackBlocks

CalendarWindow(events, date) ==
  { d \in DOMAIN events : date - 6 <= d /\ d <= date /\ Len(events[d]) > 0 }

RECURSIVE SumDailyMeans(_, _)
SumDailyMeans(events, D) ==
  IF D = {} THEN 0
  ELSE LET d == CHOOSE x \in D : TRUE
       IN  SumSeq(events[d], 1) \div Len(events[d]) + SumDailyMeans(events, D \ {d})

\* C19: the moving average of a date is the mean of the daily means of that
\* day and the 6 calendar days before it, over the days that have data.
C19_MovingAverageCalendarWindow ==
  fn = "getMA7EffectiveGasPrice" =>
    \A i \in 1..Len(out) :
       LET window == CalendarWindow(arg, out[i].date)
       IN  out[i].sum * Cardinality(window)
             = SumDailyMeans(arg, window) * out[i].n

\* C20: a batch starts only with eventsCollected < targetEvents, the cursor
\* below the chain head and no stop signal seen, and no fetch is in flight
\* with eventsCollected >= targetEvents.
C20_BatchOnlyUnderLoopCondition ==
  [][/\ (pc # "activity" /\ pc' = "activity")
          => /\ pc = "loop"
             /\ progress.eventsCollected < input.targetEvents
             /\ currentBlockNum < networkBlockNum
             /\ currentBlockNum < head
             /\ ~stopRequested
     /\ pc' = "activity" => progress'.eventsCollected < input'.targetEvents]_vars

C20_Witness ==
  /\ pc = "done"
  /\ issued = <<>>
  /\ ~stopRequested
  /\ progress.eventsCollected >= input.targetEvents
  /\ currentBlockNum < networkBlockNum

\* the batches of the execution whose progress update has run
Accounted ==
  IF pc \in {"activity", "activityDone"}
  THEN SubSeq(issued, 1, Len(issued) - 1)
  ELSE issued

RECURSIVE BlocksIn(_, _)
BlocksIn(ranges, i) ==
  IF i > Len(ranges) THEN 0
  ELSE (ranges[i].toBlock - ranges[i].fromBlock + 1) + BlocksIn(ranges, i + 1)

\* C21: while a batch is in flight, retried after a failure, or just
\* returned, the cursor, eventsCollected and blocksProcessed are those of the
\* batches processed before it, and the range in flight is the range at the
\* cursor; the activity is done only with the rows of its range stored and
\* their number returned.
C21_CursorAdvancesOnSuccessOnly ==
  pc \in {"activity", "activityDone"} =>
    /\ currentBlockNum = IF Accounted = <<>> THEN startBlock
                         ELSE Accounted[Len(Accounted)].toBlock + 1
    /\ progress.eventsCollected = countAtStart + FoundIn(Accounted, 1)
    /\ progress.blocksProcessed = BlocksIn(Accounted, 1)
    /\ batch = issued[Len(issued)]
    /\ batch.fromBlock = currentBlockNum
    /\ pc = "activityDone" =>
          /\ RowsOfRange(batch.fromBlock, batch.toBlock, head)
                \subseteq StoredRows(table)
          /\ eventsFound
                = Len(fetchTransferEvents(batch.fromBlock, batch.toBlock, head))

C21_Witness ==
  /\ pc = "activity"
  /\ activityAttempt > 1
  /\ Len(issued) > 1
  /\ currentBlockNum = issued[Len(issued) - 1].toBlock + 1
  /\ RowsOfRange(batch.fromBlock, batch.toBlock, head) # {}
  /\ ~(RowsOfRange(batch.fromBlock, batch.toBlock, head)
         \subseteq StoredRows(table))

\* C22: a call of fetchAndStoreEvents in which a log does not decode or a
\* receipt fetch is rejected never reaches its insert and writes no row; a
\* call that throws has written no row; a call that returns has written one
\* row for every log of the range and returns their number.
C22_BatchFailsWhole ==
  /\ (\E k \in 1..Len(actLogs) : ~actLogs[k].decodable)
        => actPc \notin {"insert", "returned"} /\ table = {}
  /\ receiptFailed => actPc = "thrown" /\ table = {}
  /\ actPc = "thrown" => table = {}
  /\ actPc = "returned" =>
        /\ StoredRows(table)
             = { Row(BatchResults(actLogs, timestamps)[k]) : k \in 1..Len(actLogs) }
        /\ Cardinality(table) = Len(actLogs)
        /\ returnValue = Len(actLogs)

C22_Witness ==
  /\ actPc = "thrown"
  /\ receiptFailed
  /\ \A k \in 1..Len(actLogs) : actLogs[k].decodable
  /\ Len(enriched) = ReceiptBatchSize
  /\ outstanding > 0
  /\ table = {}

\* C23: when the blocks processed in the segment exceed 500,000 after a
\* batch, and only then, the execution continues as a new segment with the
\* same target and batch size and startFromBlock = upper bound of that batch
\* + 1, no row of the store is touched, and the new segment starts its cursor
\* and its first batch at that block with eventsCollected read from the
\* store.
C23_CheckpointKeepsCursor ==
  [][/\ (pc = "activityDone" /\ pc' \notin {"activityDone", "interrupted"})
          => IF progress.blocksProcessed + (batch.toBlock - batch.fromBlock + 1)
                  > ContinueAsNewThreshold
             THEN /\ pc' = "getStartingBlock"
                  /\ segment' = segment + 1
                  /\ input' = [input EXCEPT
                                 !.startFromBlock = Start(batch.toBlock + 1)]
                  /\ table' = table
             ELSE pc' = "sleep" /\ segment' = segment
     /\ (segment > 0 /\ pc = "getStartingBlock" /\ pc' = "getCurrentBlock")
          => startBlock' = input.startFromBlock.block
     /\ (segment > 0 /\ pc = "getCollectedEventCount" /\ pc' = "loop")
          => /\ currentBlockNum' = input.startFromBlock.block
             /\ progress'.eventsCollected = getEventCount(table)
             /\ progress'.targetEvents = input.targetEvents
     /\ (segment > 0 /\ issued = <<>> /\ pc' = "activity")
          => batch'.fromBlock = input.startFromBlock.block]_vars

C23_Witness ==
  /\ segment = 1
  /\ pc = "activity"
  /\ Len(issued) = 1
  /\ batch.fromBlock = input.startFromBlock.block
  /\ progress.blocksProcessed = 0
  /\ progress.eventsCollected > 0
  /\ \E e \in table : e.row.block_number < batch.fromBlock

\* C24: after a batch [from, batchUpper] the progress record has
\* eventsCollected increased by the events the batch returned, blocksProcessed
\* increased by batchUpper - from + 1, and currentBlock = batchUpper + 1.
C24_ProgressAfterBatch ==
  [][(pc = "activityDone" /\ pc' = "sleep")
       => /\ progress'.eventsCollected = progress.eventsCollected + eventsFound
          /\ progress'.blocksProcessed
               = progress.blocksProcessed + (batch.toBlock - batch.fromBlock + 1)
          /\ progress'.currentBlock = batch.toBlock + 1]_vars

\* C25: when a batch is in flight every batch the execution issued before
\* it lies below it and has its rows stored, and when the activity has
\* returned the rows of its own range are stored too: the batches follow one
\* another without overlap and at most the last of them is in flight.
C25_OneBatchInFlight ==
  pc \in {"activity", "activityDone"} =>
    \A k \in 1..Len(issued) :
       /\ k < Len(issued) => issued[k].toBlock < issued[k + 1].fromBlock
       /\ (k < Len(issued) \/ pc = "activityDone")
            => RowsOfRange(issued[k].fromBlock, issued[k].toBlock, head)
                 \subseteq StoredRows(table)

C25_Witness ==
  /\ pc = "activity"
  /\ Len(issued) = 2
  /\ RowsOfRange(issued[1].fromBlock, issued[1].toBlock, head) # {}
  /\ RowsOfRange(issued[2].fromBlock, issued[2].toBlock, head) # {}
  /\ ~(RowsOfRange(issued[2].fromBlock, issued[2].toBlock, head)
         \subseteq StoredRows(table))

\* the last batch the execution has issued
LastIssued == issued[Len(issued)]

\* C26: a batch whose range holds no matching event ends without an error
\* and with zero events: no row of the range is in the store, eventsCollected
\* is what it was before the batch, and the cursor and blocksProcessed have
\* moved over the range.
C26_EmptyRangeAdvances ==
  (/\ issued # <<>>
   /\ pc \in {"activityDone", "sleep", "loop", "done"}
   /\ fetchTransferEvents(LastIssued.fromBlock, LastIssued.toBlock, head) = <<>>)
    => /\ \A e \in table : \/ e.row.block_number < LastIssued.fromBlock
                           \/ e.row.block_number > LastIssued.toBlock
       /\ pc = "activityDone" => eventsFound = 0
       /\ pc # "activityDone" =>
            /\ progress.eventsCollected
                 = countAtStart + FoundIn(SubSeq(issued, 1, Len(issued) - 1), 1)
            /\ progress.blocksProcessed
                 = BlocksIn(SubSeq(issued, 1, Len(issued) - 1), 1)
                     + (LastIssued.toBlock - LastIssued.fromBlock + 1)
            /\ currentBlockNum = LastIssued.toBlock + 1

C26_Witness ==
  /\ pc = "sleep"
  /\ Len(issued) = 1
  /\ fetchTransferEvents(LastIssued.fromBlock, LastIssued.toBlock, head) = <<>>
  /\ table = {}
  /\ progress.eventsCollected = 0
  /\ progress.blocksProcessed = LastIssued.toBlock - LastIssued.fromBlock + 1
  /\ currentBlockNum = LastIssued.toBlock + 1

\* C27: the scan starts with eventsCollected equal to the count of the rows
\* in the store, and an execution that starts its loop with that count at or
\* above targetEvents issues no batch: its next step returns the progress
\* with isComplete true and the store untouched.
C27_StartsFromPersistedCount ==
  [][/\ (pc = "getCollectedEventCount" /\ pc' = "loop")
          => /\ progress'.eventsCollected = getEventCount(table)
             /\ issued' = <<>>
     /\ (/\ pc = "loop" /\ issued = <<>> /\ pc' # pc
         /\ progress.eventsCollected >= input.targetEvents)
          => /\ pc' \in {"done", "interrupted"}
             /\ pc' = "done" =>
                  /\ progress'.isComplete
                  /\ progress'.eventsCollected = progress.eventsCollected
                  /\ issued' = <<>>
                  /\ table' = table]_vars

C27_Witness ==
  /\ pc = "done"
  /\ issued = <<>>
  /\ progress.isComplete
  /\ table # {}
  /\ countAtStart = getEventCount(table)
  /\ progress.eventsCollected = countAtStart
  /\ countAtStart >= input.targetEvents

\* C28: every batch of an execution is issued at the cursor, so the blocks
\* at which its batches were issued are the values the cursor has had: they
\* strictly increase, the cursor never is below its start or the block at
\* which the last batch was issued, and it is above that block once the batch
\* is processed.
C28_CursorMonotonic ==
  pc \in {"loop", "activity", "activityDone", "sleep", "done"} =>
    /\ currentBlockNum >= startBlock
    /\ \A k \in 1..Len(issued) :
          /\ issued[k].fromBlock >= startBlock
          /\ k < Len(issued) => issued[k].fromBlock < issued[k + 1].fromBlock
    /\ issued # <<>> =>
          IF pc \in {"activity", "activityDone"}
          THEN currentBlockNum = LastIssued.fromBlock
          ELSE currentBlockNum > LastIssued.fromBlock

C28_Witness ==
  /\ pc = "sleep"
  /\ Len(issued) = 2
  /\ startBlock = issued[1].fromBlock
  /\ issued[1].fromBlock < issued[2].fromBlock
  /\ issued[2].fromBlock < currentBlockNum
  /\ currentBlockNum = networkBlockNum + 1

\* C29: every event processEventsBatch has produced, and every row the
\* activity has written, carries the timestamp of the header of its own
\* block, which getBlocks resolved; none carries the value that stands in
\* for a timestamp that was not found.
C29_OwnBlockTimestamp ==
  /\ \A k \in 1..Len(enriched) :
        /\ enriched[k].blockNumber \in DOMAIN timestamps
        /\ enriched[k].blockTimestamp = BlockTimestamp(enriched[k].blockNumber)
        /\ enriched[k].blockTimestamp # 0
  /\ \A e \in table :
        /\ e.row.block_number \in DOMAIN timestamps
        /\ e.row.block_timestamp = BlockTimestamp(e.row.block_number)

C29_Witness ==
  /\ actPc = "returned"
  /\ Cardinality(table) = 3
  /\ Cardinality({ e.row.block_number : e \in table }) = 2
  /\ Cardinality({ e.row.block_timestamp : e \in table }) = 2

\* C30: in one call of processEventsBatch at most 50 receipt fetches are
\* outstanding; a sub-batch is started, the delay runs and the function
\* returns only with no fetch outstanding; the fetches outstanding while a
\* sub-batch is awaited are fetches of that sub-batch; and the events
\* returned are one for every log, in the order of the logs.
C30_ReceiptSubBatches ==
  /\ outstanding <= ReceiptBatchSize
  /\ actPc \in {"loop", "delay", "insert", "returned"} => outstanding = 0
  /\ actPc \in {"awaitAll", "delay"} => Len(enriched) <= loopIndex + ReceiptBatchSize
  /\ actPc = "awaitAll" =>
        /\ loopIndex % ReceiptBatchSize = 0
        /\ Len(enriched) = loopIndex
        /\ outstanding <= Min(ReceiptBatchSize, Len(actLogs) - loopIndex)
  /\ actPc \in {"insert", "returned"} =>
        /\ Len(enriched) = Len(actLogs)
        /\ \A k \in 1..Len(actLogs) :
              /\ enriched[k].transactionHash = actLogs[k].transactionHash
              /\ enriched[k].logIndex = actLogs[k].logIndex

C30_Witness ==
  /\ actPc = "awaitAll"
  /\ loopIndex = ReceiptBatchSize
  /\ Len(actLogs) = ReceiptBatchSize + 2
  /\ Len(enriched) = ReceiptBatchSize
  /\ outstanding = 1

\* the sum of the first i entries of the daily gas cost series
RECURSIVE SumDaily(_, _)
SumDaily(daily, i) ==
  IF i = 0 THEN 0 ELSE daily[i].gas_cost_wei + SumDaily(daily, i - 1)

\* C31: the cumulative series has, at every position, the date of the daily
\* series and the sum of the daily costs up to that date, in ascending date
\* order, and its last value is the sum of gas_cost over the rows of the
\* table.
C31_CumulativeIsRunningSum ==
  fn = "generateAnalysisReport" =>
    LET daily == out.daily_gas_cost
        cum == out.cumulative_gas_cost_eth
    IN  /\ Len(cum) = Len(daily)
        /\ \A i \in 1..Len(cum) :
              /\ cum[i].date = daily[i].date
              /\ cum[i].cum_wei = SumDaily(daily, i)
              /\ i < Len(cum) => cum[i].date < cum[i + 1].date
        /\ cum # <<>> => cum[Len(cum)].cum_wei = SumGasCost(arg)

C31_Witness ==
  /\ fn = "generateAnalysisReport"
  /\ arg = AnalysisRows
  /\ Len(out.cumulative_gas_cost_eth) = 6
  /\ out.cumulative_gas_cost_eth[2].cum_wei = 34
  /\ out.cumulative_gas_cost_eth[6].cum_wei = 106

\* the UTC dates that have a row: day d spans the seconds
\* d * 86400 .. (d + 1) * 86400 - 1
UTCDatesWithEvents(physical) ==
  { d \in 0..(MaxDay + 4) :
      \E r \in physical :
        /\ d * SecondsPerDay <= r.block_timestamp
        /\ r.block_timestamp < (d + 1) * SecondsPerDay }

DatesOf(series) == { series[i].date : i \in 1..Len(series) }

StrictlyAscendingDates(series) ==
  \A i \in 1..Len(series) : i < Len(series) => series[i].date < series[i + 1].date

\* C32: the daily gas cost, the moving average and the cumulative series
\* each hold exactly the UTC dates that have a row in the table, once each,
\* in strictly ascending order.
C32_SeriesShareDates ==
  fn = "generateAnalysisReport" =>
    \A series \in {out.daily_gas_cost, out.ma7_effective_gas_price,
                    out.cumulative_gas_cost_eth} :
      /\ DatesOf(series) = UTCDatesWithEvents(arg)
      /\ Len(series) = Cardinality(UTCDatesWithEvents(arg))
      /\ StrictlyAscendingDates(series)

C32_Witness ==
  /\ fn = "generateAnalysisReport"
  /\ Cardinality(arg) = 5
  /\ DatesOf(out.ma7_effective_gas_price) = {1, 2, MaxDay + 3}
  /\ DatesOf(out.daily_gas_cost) = {1, 2, MaxDay + 3}
  /\ Len(out.cumulative_gas_cost_eth) = 3

\* C33: the counter of blocks processed of the pipeline equals the number of
\* blocks of the ranges the process has scanned: every batch [from, rangeEnd]
\* adds rangeEnd - from + 1.
C33_CounterCountsScannedBlocks ==
  plPc \in {"loop", "done"} => blocksProcessed = BlocksIn(plIssued, 1)

\* C34: the workflow argument built by the starter command has targetEvents
\* equal to the configured minimum event count (MIN_EVENTS, 5000 by
\* default), so the loop of the started workflow goes on while fewer events
\* than that are collected.
C34_StarterUsesMinEvents ==
  fn = "startWorkflow" =>
    /\ out.targetEvents = ConfigTarget(arg.env).minEvents
    /\ LessThan(Num(arg.eventsCollected), out.targetEvents)
          = (arg.eventsCollected < ConfigTarget(arg.env).minEvents.n)

\* every range after the first starts one block after the end of the range
\* before it
Contiguous(ranges) ==
  \A k \in 1..Len(ranges) :
    k < Len(ranges) => ranges[k + 1].fromBlock = ranges[k].toBlock + 1

\* no block lies in two of the ranges
Disjoint(ranges) ==
  \A j, k \in 1..Len(ranges) :
    j < k => ranges[j].toBlock < ranges[k].fromBlock

\* C35: the ranges of a scan of the workflow (over its continue-as-new
\* executions) and the ranges of a pipeline process are contiguous and
\* disjoint: each starts at the upper bound of the one before it plus 1.
C35_BatchesContiguous ==
  /\ Contiguous(scanIssued) /\ Disjoint(scanIssued)
  /\ Contiguous(plIssued) /\ Disjoint(plIssued)

C35_Witness ==
  /\ segment > 0
  /\ Len(scanIssued) > Len(issued)
  /\ Len(issued) >= 2
  /\ Len(plIssued) >= 3
  /\ plPc = "done"

\* C36: in an execution of the workflow every range [from, to] passed to
\* fetchAndStoreEvents has startBlock <= from <= to <= networkBlockNum, for
\* batch sizes 0, 1 and larger, and when the workflow has returned the cursor
\* is at most networkBlockNum + 1 if startBlock <= networkBlockNum.
C36_RangesWithinBounds ==
  /\ \A k \in 1..Len(issued) :
        /\ startBlock <= issued[k].fromBlock
        /\ issued[k].fromBlock <= issued[k].toBlock
        /\ issued[k].toBlock <= networkBlockNum
  /\ \A k \in 1..Len(scanIssued) : scanStart <= scanIssued[k].fromBlock
  /\ (pc = "done" /\ startBlock <= networkBlockNum) =>
        currentBlockNum <= networkBlockNum + 1

C36_Witness ==
  /\ pc = "done"
  /\ input.blockBatchSize = 0
  /\ Len(issued) = 2
  /\ issued[2].toBlock = issued[2].fromBlock
  /\ startBlock <= networkBlockNum

\* at most head - start batches, and none when the start is above the head
WithinBatchBound(ranges, start, chainHead) ==
  IF start <= chainHead THEN Len(ranges) <= chainHead - start
  ELSE Len(ranges) = 0

\* the number of batches stays within the bound in both loops
BatchCountBounded ==
  /\ pc \in {"loop", "activity", "activityDone", "sleep", "done"} =>
        /\ WithinBatchBound(issued, startBlock, networkBlockNum)
        /\ WithinBatchBound(scanIssued, scanStart, networkBlockNum)
  /\ plPc \in {"loop", "done"} =>
        WithinBatchBound(plIssued, plStartBlock, currentBlock)

\* C37: when every call of fetchAndStoreEvents returns, a started workflow
\* returns (completed or stopped) and a pipeline process whose ranges are
\* valid completes, whatever the batch size (0 included), the events found
\* and the stop signals, and neither issues more than chainHead - startBlock
\* batches (none when startBlock is above the chain head).
C37_LoopTerminates ==
  /\ []BatchCountBounded
  /\ (pc \in Running) ~> (pc = "done")
  /\ (plPc = "loop" /\ plCurrentBlockNum >= 0) ~> (plPc = "done")

C37_Witness ==
  /\ plPc = "done"
  /\ plConfig.blockBatchSize = 0
  /\ plIssued # <<>>
  /\ Len(plIssued) = currentBlock - plStartBlock

\* the distinct (transactionHash, logIndex) pairs of the rows of the store
DistinctEvents(tbl) ==
  { <<e.row.transaction_hash, e.row.log_index>> : e \in tbl }

\* C38: when the workflow returns, eventsCollected is the number of distinct
\* (transactionHash, logIndex) events in the store.
C38_CountsDistinctEvents ==
  pc = "done" => progress.eventsCollected = Cardinality(DistinctEvents(table))

\* the first pipeline process and the first scan of the workflow have ended,
\* both began on stores with the same rows, from the same block, with the
\* same batch size and target, and every read of the chain head gave the
\* same block
SameGivens ==
  /\ pc = "done" /\ runs = 1
  /\ plPc = "done" /\ plRuns = 1
  /\ scanStart = plStartBlock
  /\ input.blockBatchSize = plConfig.blockBatchSize
  /\ input.targetEvents = plConfig.minEvents
  /\ networkBlockNum = currentBlock
  /\ (segment = 0 \/ head = Head0)

\* C39: from the same starting block, chain head, batch size, target and
\* store, and with no stop signal, the pipeline loop and the workflow loop
\* (over its continue-as-new executions) issue the same sequence of block
\* ranges and leave the same rows in their stores.
C39_LoopsEquivalent ==
  SameGivens =>
    /\ scanIssued = plIssued
    /\ table = plTable

C39_Witness ==
  /\ SameGivens
  /\ segment > 0
  /\ Len(plIssued) >= 3
  /\ Cardinality(plTable) >= 3

\* C40: the starting block of a fresh run is at least 0 and at most the
\* chain head, in the workflow (30 days back) and in the pipeline (two years
\* back), whatever the chain head.
C40_FreshStartWithinChain ==
  fn = "freshStart" =>
    /\ 0 <= out.workflow /\ out.workflow <= arg
    /\ 0 <= out.pipeline /\ out.pipeline <= arg

====
